---------------------------- MODULE Spec2Model ----------------------------
(***************************************************************************)
(* Model of the web evidence collection of NoteAgentNews:                  *)
(*   src/services/search_service.py                                        *)
(*     OpenAISearchService  (Strategy A: model-native browsing)            *)
(*     WebSearchService     (Strategy B: raw web search + page fetch)      *)
(*     SearchServiceFactory (selects the strategy)                         *)
(*                                                                         *)
(* Python strings are sequences of one-character strings, so that find,    *)
(* rfind, slicing and strip are computed as the code computes them.        *)
(* Positions are 0-based, as in the source.                                *)
(***************************************************************************)
EXTENDS Integers, Sequences, FiniteSets, TLC

VARIABLES
    service_type,    \* SearchServiceFactory.create_service: "openai" or "web"
    topic,           \* the Topic handed to search_topic
    pc,              \* position of the search_topic call
    error,           \* the exception search_topic terminated with, "none" otherwise
    message,         \* Strategy A: completion.choices[0].message
    url_contents,    \* Strategy A: result of _extract_url_related_content
    search_engine,   \* Strategy B: os.environ.get("SEARCH_ENGINE") at construction
    engine_order,    \* Strategy B: WebSearchService._engine_order
    attempt_number,  \* Strategy B: attempt of the @retry wrapper of _perform_web_search
    engine_idx,      \* Strategy B: loop position in _engine_order (1-based)
    calls,           \* Strategy B: log of the backend invocations of this call
    search_results,  \* Strategy B: value returned by _perform_web_search
    hit_idx,         \* Strategy B: loop position in search_results (1-based)
    fetch_log,       \* Strategy B: what was done for each processed hit
    last_fetch,      \* Strategy B: the last _fetch_content_from_url call: the
                     \* stage that failed, what it returned, the browser it left
    sources,         \* the local list `sources` of search_topic; returned in
                     \* NewsData(topic_id=topic.id, sources=sources) when pc = "done"
    att_given,       \* attribution alone: the (content, url_citations) passed
    att_args,        \* attribution alone: the two argument objects after the runs
    att_runs,        \* attribution alone: the dict each run returned
    topic_rows,      \* the rows of the table topics
    news_rows,       \* the rows of the table news_data
    news_created,    \* the NewsData objects passed to NewsRepository.create, by id
    article_rows,    \* the rows of the table articles
    step_status,     \* AppService.step_status
    current_topic_id,    \* AppService.current_topic_id
    current_news_id,     \* AppService.current_news_id
    current_article_id,  \* AppService.current_article_id
    note_poster,     \* AppService.note_poster_service: whether one was given, and
                     \* the invocations of post_article: the article, and
                     \* whether it had been published before
    app_call,        \* the last call made on AppService or NewsRepository and
                     \* how it ended
    instance,        \* concurrent calls: the service instance the calls are made on
    call_pc,         \* concurrent calls: the position of each search_topic call
    call_uses,       \* concurrent calls: the resources each call has used, in order
    collect_call     \* concurrent calls: each collect_news_for_topic call made on
                     \* one AppService: its position, what it has read, how it ended

vars == <<service_type, topic, pc, error, message, url_contents, search_engine,
          engine_order, attempt_number, engine_idx, calls, search_results, hit_idx,
          fetch_log, last_fetch, sources, att_given, att_args, att_runs,
          topic_rows, news_rows, news_created, article_rows, step_status,
          current_topic_id, current_news_id, current_article_id, note_poster, app_call,
          instance, call_pc, call_uses, collect_call>>

\* the tables of the database
db_vars == <<topic_rows, news_rows, news_created, article_rows>>

\* the attributes of AppService
app_vars == <<step_status, current_topic_id, current_news_id, current_article_id,
              note_poster>>

\* the variables of the repeated runs of _extract_url_related_content
attributor_vars == <<att_given, att_args, att_runs>>

\* the variables of the concurrent calls on one service instance
concurrent_vars == <<instance, call_pc, call_uses, collect_call>>

\* the two calls made concurrently on one instance
Callers == {1, 2}

\* the variables no search_topic call touches
other_vars == <<attributor_vars, db_vars, app_vars, app_call, concurrent_vars>>

-----------------------------------------------------------------------------
(* Bounds of the model *)

MaxPieces == 3        \* pieces concatenated into a model response text
MaxAnnotations == 2   \* annotations of a model response
MaxHits == 2          \* raw hits one backend returns
LongRun == 101        \* length of the long filler piece of a response text

(* Program constants *)

ContextLookback == 200   \* max(0, start_pos - 200)
MinRelatedLen == 100     \* len(related_content) < 100
FillerLen == 300         \* summary_content[:300]
StopAfterAttempt == 3    \* stop_after_attempt(3)

-----------------------------------------------------------------------------
(* Python str operations on sequences of characters *)

Whitespace == {" ", "\n", "\t"}

MinOf(a, b) == IF a < b THEN a ELSE b
MaxOf(a, b) == IF a > b THEN a ELSE b

\* s[a:b] with 0 <= a; b is clamped to len(s) as Python does
Slice(s, a, b) == SubSeq(s, a + 1, MinOf(b, Len(s)))

\* s[i : i + len(sub)] == sub
MatchAt(s, sub, i) ==
    /\ i >= 0
    /\ i + Len(sub) <= Len(s)
    /\ \A k \in 1..Len(sub) : s[i + k] = sub[k]

\* s.find(sub, start): lowest index >= start where sub occurs, else -1
Find(s, sub, start) ==
    LET at == { i \in start..(Len(s) - Len(sub)) :
                  (sub = << >> \/ s[i + 1] = sub[1]) /\ MatchAt(s, sub, i) }
    IN  IF at = {} THEN -1 ELSE CHOOSE i \in at : \A j \in at : i <= j

\* RFind that finds nothing
RFindNothing(s, sub, start, end) == -1

\* s.rfind(sub, start, end): highest index i with start <= i and
\* i + len(sub) <= end where sub occurs, else -1
RFind(s, sub, start, end) ==
    LET at == { i \in start..(end - Len(sub)) : MatchAt(s, sub, i) }
    IN  IF at = {} THEN -1 ELSE CHOOSE i \in at : \A j \in at : i >= j

\* s.strip()
Strip(s) ==
    IF \A i \in 1..Len(s) : s[i] \in Whitespace
    THEN << >>
    ELSE LET first == CHOOSE i \in 1..Len(s) :
                         /\ s[i] \notin Whitespace
                         /\ \A j \in 1..(i - 1) : s[j] \in Whitespace
             last == CHOOSE i \in 1..Len(s) :
                         /\ s[i] \notin Whitespace
                         /\ \A j \in (i + 1)..Len(s) : s[j] \in Whitespace
         IN  SubSeq(s, first, last)

PeriodSpace == <<".", " ">>
Newline == <<"\n">>
Ellipsis == <<".", ".", ".">>


-----------------------------------------------------------------------------
(* Data model: models/topic.py, models/news_data.py *)

NewsSource(url, title, content) == [url |-> url, title |-> title, content |-> content]

NewsData(topic_id, srcs) == [topic_id |-> topic_id, sources |-> srcs]

TopicTitle == <<"E", "v", "e", "n", "t">>

\* Topic(id, title, description); description is None/"" (<< >>) or a text
Topics ==
    { [id |-> 1, title |-> TopicTitle, description |-> d] : d \in {<< >>, <<"d">>} }

\* the topics a service is called with: Strategy A uses the description only
\* inside the prompt it sends, so the topic without description stands for both
TopicsOf(service) ==
    IF service = "web" THEN Topics ELSE { t \in Topics : t.description = << >> }

-----------------------------------------------------------------------------
(* Strategy A: OpenAISearchService *)

\* f"([{url_citation.title}]({url_citation.url}))"
CitationText(title, url) ==
    <<"(", "[">> \o title \o <<"]", "(">> \o url \o <<")", ")">>

\* the list url_citations built from message.annotations
UrlCitations(annotations) ==
    LET cited == SelectSeq(annotations, LAMBDA a : a.kind = "url_citation")
    IN  [i \in 1..Len(cited) |->
            [url |-> cited[i].url,
             title |-> cited[i].title,
             text |-> CitationText(cited[i].title, cited[i].url)]]

\* NextCitationPos that searches the other citations from the start of the text
NextCitationPosFromStart(content, url_citations, citation_text, context_end) ==
    LET found == { Find(content, url_citations[k].text, 0) :
                     k \in { j \in 1..Len(url_citations) :
                               url_citations[j].text # citation_text } } \ {-1}
    IN  IF found = {} THEN Len(content)
        ELSE CHOOSE p \in found : \A q \in found : p <= q

\* NextCitationPos that does not skip the citations with the same text
NextCitationPosAnyMarker(content, url_citations, citation_text, context_end) ==
    LET found == { Find(content, url_citations[k].text, context_end) :
                     k \in 1..Len(url_citations) } \ {-1}
    IN  IF found = {} THEN Len(content)
        ELSE CHOOSE p \in found : \A q \in found : p <= q

\* NextCitationPos without the search for the other citations
NextCitationPosEndOfText(content, url_citations, citation_text, context_end) ==
    Len(content)

\* the inner loop over other_citation: position of the nearest occurrence,
\* at or after context_end, of a citation with a different text
NextCitationPos(content, url_citations, citation_text, context_end) ==
    LET found == { Find(content, url_citations[k].text, context_end) :
                     k \in { j \in 1..Len(url_citations) :
                               url_citations[j].text # citation_text } } \ {-1}
    IN  IF found = {} THEN Len(content)
        ELSE CHOOSE p \in found : \A q \in found : p <= q

\* CitationSpan without the extension of a short span to the next period
CitationSpanNoExtension(content, url_citations, citation_text) ==
    LET start_pos == Find(content, citation_text, 0)
        window_start == MaxOf(0, start_pos - ContextLookback)
        context_end == start_pos + Len(citation_text)
        last_period == RFind(content, PeriodSpace, window_start, start_pos)
        last_newline == RFind(content, Newline, window_start, start_pos)
        last_break == MaxOf(last_period, last_newline)
        context_start == IF window_start > 0 /\ last_break # -1
                         THEN last_break + 1
                         ELSE window_start
        next_citation_pos ==
            NextCitationPos(content, url_citations, citation_text, context_end)
    IN  IF start_pos = -1
        THEN [found |-> FALSE, start_pos |-> -1, context_start |-> 0,
              context_end |-> 0, next_citation_pos |-> 0, span_end |-> 0,
              extended |-> FALSE, related_content |-> << >>]
        ELSE [found |-> TRUE,
              start_pos |-> start_pos,
              context_start |-> context_start,
              context_end |-> context_end,
              next_citation_pos |-> next_citation_pos,
              span_end |-> next_citation_pos,
              extended |-> FALSE,
              related_content |-> Strip(Slice(content, context_start, next_citation_pos))]

\* one iteration of the loop over url_citations: the span of one citation
CitationSpan(content, url_citations, citation_text) ==
    LET start_pos == Find(content, citation_text, 0)
        window_start == MaxOf(0, start_pos - ContextLookback)
        context_end == start_pos + Len(citation_text)
        last_period == RFind(content, PeriodSpace, window_start, start_pos)
        last_newline == RFind(content, Newline, window_start, start_pos)
        last_break == MaxOf(last_period, last_newline)
        context_start == IF window_start > 0 /\ last_break # -1
                         THEN last_break + 1
                         ELSE window_start
        next_citation_pos ==
            NextCitationPos(content, url_citations, citation_text, context_end)
        related_content == Strip(Slice(content, context_start, next_citation_pos))
        next_period == Find(content, PeriodSpace, next_citation_pos)
        extended == /\ Len(related_content) < MinRelatedLen
                    /\ next_citation_pos < Len(content)
                    /\ next_period # -1
    IN  IF start_pos = -1
        THEN [found |-> FALSE, start_pos |-> -1, context_start |-> 0,
              context_end |-> 0, next_citation_pos |-> 0, span_end |-> 0,
              extended |-> FALSE, related_content |-> << >>]
        ELSE [found |-> TRUE,
              start_pos |-> start_pos,
              context_start |-> context_start,
              context_end |-> context_end,
              next_citation_pos |-> next_citation_pos,
              span_end |-> IF extended THEN next_period + 1 ELSE next_citation_pos,
              extended |-> extended,
              related_content |->
                  IF extended
                  THEN Strip(Slice(content, context_start, next_period + 1))
                  ELSE related_content]

EmptyDict == [u \in {} |-> << >>]

\* DictSet that records nothing
DictSetNothing(d, key, value) == d

\* url_contents[url] = related_content
DictSet(d, key, value) ==
    [k \in DOMAIN d \cup {key} |-> IF k = key THEN value ELSE d[k]]

RECURSIVE ExtractFirst(_, _, _)
\* the dict after the first n iterations of the loop over url_citations
ExtractFirst(content, url_citations, n) ==
    IF n = 0 THEN EmptyDict
    ELSE LET prev == ExtractFirst(content, url_citations, n - 1)
             citation == url_citations[n]
             span == CitationSpan(content, url_citations, citation.text)
         IN  IF ~span.found THEN prev
             ELSE DictSet(prev, citation.url, span.related_content)

\* OpenAISearchService._extract_url_related_content
extract_url_related_content(content, url_citations) ==
    ExtractFirst(content, url_citations, Len(url_citations))

\* FillerContent without the trailing "..."
FillerContentNoEllipsis(summary_content) == Slice(summary_content, 0, FillerLen)

\* FillerContent without the truncation
FillerContentWhole(summary_content) == summary_content

\* summary_content[:300] + "..."
FillerContent(summary_content) == Slice(summary_content, 0, FillerLen) \o Ellipsis

\* SourceContent that never looks the URL up
SourceContentFillerOnly(uc, url, summary_content) ==
    Slice(summary_content, 0, FillerLen) \o Ellipsis

\* url_contents.get(url, summary_content[:300] + "...")
SourceContent(uc, url, summary_content) ==
    IF url \in DOMAIN uc THEN uc[url] ELSE FillerContent(summary_content)

\* CitedSources that leaves out the annotations whose URL has no span and the
\* repeated annotations of a URL
CitedSourcesMerged(annotations, uc, summary_content) ==
    LET cited == SelectSeq(annotations, LAMBDA a : a.kind = "url_citation")
        kept == { i \in 1..Len(cited) :
                    /\ cited[i].url \in DOMAIN uc
                    /\ \A j \in 1..(i - 1) : cited[j].url # cited[i].url }
        first == IF kept = {} THEN 0 ELSE CHOOSE i \in kept : \A j \in kept : i <= j
    IN  IF kept = {} THEN << >>
        ELSE << NewsSource(cited[first].url, cited[first].title, uc[cited[first].url]) >>

\* the loop that appends one NewsSource per annotation with a url_citation
CitedSources(annotations, uc, summary_content) ==
    LET cited == SelectSeq(annotations, LAMBDA a : a.kind = "url_citation")
    IN  [i \in 1..Len(cited) |->
            NewsSource(cited[i].url, cited[i].title,
                       SourceContent(uc, cited[i].url, summary_content))]

\* any(url_contents.values())
AnyValue(uc) == \E u \in DOMAIN uc : uc[u] # << >>

\* OpenAIFinalSources whose single fallback source carries the truncated text
OpenAIFinalSourcesTruncated(srcs, uc, topic_title, summary_content) ==
    IF srcs = << >>
    THEN << NewsSource(<< >>, topic_title, Slice(summary_content, 0, FillerLen)) >>
    ELSE IF ~AnyValue(uc)
         THEN [srcs EXCEPT ![1] = NewsSource(srcs[1].url, srcs[1].title, summary_content)]
         ELSE srcs

\* if not sources: ... elif not any(url_contents.values()): ...
OpenAIFinalSources(srcs, uc, topic_title, summary_content) ==
    IF srcs = << >>
    THEN << NewsSource(<< >>, topic_title, summary_content) >>
    ELSE IF ~AnyValue(uc)
         THEN [srcs EXCEPT ![1] = NewsSource(srcs[1].url, srcs[1].title, summary_content)]
         ELSE srcs


-----------------------------------------------------------------------------
(* Model responses Strategy A can receive *)

U1 == <<"u", "1">>
U2 == <<"u", "2">>
Title1 == <<"C", "i", "t", "e", "1">>
Title2 == <<"C", "i", "t", "e", "2">>

Annotation(kind, url, title) == [kind |-> kind, url |-> url, title |-> title]

Cite1 == Annotation("url_citation", U1, Title1)
Cite2 == Annotation("url_citation", U2, Title2)
\* a citation of the URL of Cite1 under another title
Cite1b == Annotation("url_citation", U1, Title2)

\* an annotation that has no url_citation attribute
OtherAnnotation == Annotation("other", << >>, << >>)

\* the annotations lists of responses are built from: two citations of
\* different URLs
Annotations == { Cite1, Cite2 }

MarkerOf(a) == CitationText(a.title, a.url)

RECURSIVE SeqsUpTo(_, _)
\* the sequences of at most n elements of S
SeqsUpTo(S, n) ==
    IF n = 0 THEN { << >> }
    ELSE LET shorter == SeqsUpTo(S, n - 1)
         IN  shorter \cup { Append(q, e) : q \in shorter, e \in S }

LongFiller == [i \in 1..LongRun |-> "x"]

\* the pieces a response text is made of: the literal text of each citation,
\* a sentence boundary, a line break and a long run of ordinary characters
Pieces == { MarkerOf(Cite1), MarkerOf(Cite2), PeriodSpace, Newline, LongFiller }

RECURSIVE Concat(_)
Concat(ps) == IF ps = << >> THEN << >> ELSE Head(ps) \o Concat(Tail(ps))

GeneratedTexts == { Concat(ps) : ps \in SeqsUpTo(Pieces, MaxPieces) }

\* the example text of the specification, whose citations carry no outer
\* parentheses, and the same text with the literal marker texts
ExampleText ==
    <<"A", " ", "t", "e", "x", "t", ".", " ",
      "[", "C", "i", "t", "e", "1", "]", "(", "u", "1", ")",
      " ", "m", "o", "r", "e", " ", "t", "e", "x", "t", ".", " ",
      "[", "C", "i", "t", "e", "2", "]", "(", "u", "2", ")",
      " ", "t", "a", "i", "l", ".">>

ExampleTextLiteral ==
    <<"A", " ", "t", "e", "x", "t", ".", " ",
      "(", "[", "C", "i", "t", "e", "1", "]", "(", "u", "1", ")", ")",
      " ", "m", "o", "r", "e", " ", "t", "e", "x", "t", ".", " ",
      "(", "[", "C", "i", "t", "e", "2", "]", "(", "u", "2", ")", ")",
      " ", "t", "a", "i", "l", ".">>

ExampleAnnotations ==
    << Annotation("url_citation", U1, Title1), Annotation("url_citation", U2, Title2) >>

Message(content, annotations) == [content |-> content, annotations |-> annotations]

\* responses that cite one URL under two titles
SameUrlResponses ==
    { Message(Concat(ps), an) :
        ps \in { <<MarkerOf(Cite1), MarkerOf(Cite1b)>>, <<MarkerOf(Cite1b), MarkerOf(Cite1)>>,
                 <<MarkerOf(Cite1), LongFiller, MarkerOf(Cite1b)>>, <<MarkerOf(Cite1b)>> },
        an \in { <<Cite1, Cite1b>>, <<Cite1b, Cite1>> } }

\* responses longer than the filler length in which one of two cited markers
\* occurs
PartialSpanResponses ==
    { Message(Concat(ps), an) :
        ps \in { <<MarkerOf(Cite1), LongFiller, LongFiller, LongFiller>>,
                 <<LongFiller, LongFiller, PeriodSpace, LongFiller, MarkerOf(Cite2)>> },
        an \in { <<Cite1, Cite2>>, <<Cite2, Cite1>> } }

\* responses with annotations that have no url_citation attribute, alone and
\* among citations
OtherAnnotationResponses ==
    { Message(Concat(ps), an) :
        ps \in { << >>, <<MarkerOf(Cite1)>>, <<LongFiller, LongFiller, LongFiller>>,
                 <<MarkerOf(Cite1), LongFiller, MarkerOf(Cite2)>> },
        an \in { <<OtherAnnotation>>, <<OtherAnnotation, OtherAnnotation>>,
                 <<OtherAnnotation, Cite1>>, <<Cite1, OtherAnnotation>>,
                 <<Cite2, OtherAnnotation, Cite1>> } }

\* responses that annotate one citation twice, next to a different one, with
\* texts in which the marker text of the repeated citation occurs again
CollisionResponses ==
    { Message(Concat(ps), an) :
        ps \in { <<MarkerOf(Cite1), LongFiller, MarkerOf(Cite1), MarkerOf(Cite2)>>,
                 <<LongFiller, PeriodSpace, MarkerOf(Cite1), MarkerOf(Cite1),
                   MarkerOf(Cite2), PeriodSpace, MarkerOf(Cite1)>> },
        an \in { <<Cite1, Cite2, Cite1>>, <<Cite1, Cite1, Cite2>> } }

Responses ==
    { Message(t, an) : t \in GeneratedTexts, an \in SeqsUpTo(Annotations, MaxAnnotations) }
    \cup SameUrlResponses
    \cup PartialSpanResponses
    \cup OtherAnnotationResponses
    \cup CollisionResponses
    \cup { Message(ExampleText, ExampleAnnotations),
           Message(ExampleTextLiteral, ExampleAnnotations) }


-----------------------------------------------------------------------------
(* Strategy B: search backends *)

\* keys of WebSearchService._search_engines
search_engines == {"google", "duckduckgo"}

DefaultEngineOrder == <<"google", "duckduckgo">>

\* values of the environment variable SEARCH_ENGINE ("" when unset)
SearchEngineValues == {"", "google", "DuckDuckGo", "bing"}

\* str.lower() on the values above
Lower(name) ==
    CASE name = "DuckDuckGo" -> "duckduckgo"
      [] OTHER -> name

\* EngineOrder that does not remove the preferred engine from the default order
EngineOrderDuplicating(env) ==
    IF env # "" /\ Lower(env) \in search_engines
    THEN <<Lower(env)>> \o DefaultEngineOrder
    ELSE DefaultEngineOrder

\* WebSearchService.__init__: the engine order
EngineOrder(env) ==
    IF env # ""
    THEN LET preferred == Lower(env)
         IN  IF preferred \in search_engines
             THEN <<preferred>> \o SelectSeq(DefaultEngineOrder, LAMBDA e : e # preferred)
             ELSE DefaultEngineOrder
    ELSE DefaultEngineOrder

UrlA == <<"a", "/", "b", "-", "N">>
UrlB == <<"a", "/">>
HitTitle == <<"T">>

\* what a search provider yields: it raises, or it yields items
ProviderOutcome(raised, items) == [raised |-> raised, items |-> items]

ProviderItem(href, title) == [href |-> href, title |-> title]

\* googlesearch.search yields URLs only
GoogleItems == { ProviderItem(u, << >>) : u \in {<< >>, UrlA, UrlB} }

\* DDGS().text yields records with href and title
DuckDuckGoItems ==
    { ProviderItem(<< >>, << >>), ProviderItem(UrlA, << >>),
      ProviderItem(UrlA, HitTitle), ProviderItem(UrlB, HitTitle) }

ProviderOutcomes(engine_name) ==
    LET items == IF engine_name = "google" THEN GoogleItems ELSE DuckDuckGoItems
    IN  { ProviderOutcome(TRUE, << >>) }
        \cup { ProviderOutcome(FALSE, q) : q \in SeqsUpTo(items, MaxHits) }

RawHit(url, title) == [url |-> url, title |-> title]

\* GoogleSearchEngine.perform_search
GooglePerformSearch(outcome) ==
    IF outcome.raised THEN << >>
    ELSE [i \in 1..Len(outcome.items) |-> RawHit(outcome.items[i].href, << >>)]

\* DuckDuckGoSearchEngine.perform_search
DuckDuckGoPerformSearch(outcome) ==
    IF outcome.raised THEN << >>
    ELSE [i \in 1..Len(outcome.items) |->
            RawHit(outcome.items[i].href, outcome.items[i].title)]

\* engine.perform_search(query, num_results=num_results)
perform_search(engine_name, outcome) ==
    IF engine_name = "google" THEN GooglePerformSearch(outcome)
    ELSE DuckDuckGoPerformSearch(outcome)

\* TryEngine without the except clause
TryEngineUncaught(engine_name, outcome, executor_fails) ==
    IF executor_fails
    THEN [raised |-> TRUE, results |-> << >>]
    ELSE [raised |-> FALSE, results |-> perform_search(engine_name, outcome)]

\* the try/except around one engine in _perform_web_search: executor_fails
\* is a failure of get_event_loop/run_in_executor; `raised` tells whether an
\* exception leaves the try statement
TryEngine(engine_name, outcome, executor_fails) ==
    IF executor_fails
    THEN [raised |-> FALSE, results |-> << >>]
    ELSE [raised |-> FALSE, results |-> perform_search(engine_name, outcome)]

\* ReturnsResults that never leaves the loop early
ReturnsResultsNever(results) == FALSE

\* if results: return results
ReturnsResults(results) == results # << >>

\* the @retry wrapper: what follows an attempt of the function that raised
RetryDecision(attempt) ==
    IF attempt >= StopAfterAttempt THEN "RetryError" ELSE "retry"

\* query = topic.title; if topic.description: query += f" {topic.description}"
Query(t) ==
    IF t.description # << >> THEN t.title \o <<" ">> \o t.description ELSE t.title

CallKind(outcome, executor_fails) ==
    IF executor_fails THEN "executor_error"
    ELSE IF outcome.raised THEN "provider_error" ELSE "returned"

-----------------------------------------------------------------------------
(* Strategy B: title fallback and page fetch *)

\* url.split("/")[-1]
LastSegment(url) ==
    IF \E i \in 1..Len(url) : url[i] = "/"
    THEN LET last == CHOOSE i \in 1..Len(url) :
                        /\ url[i] = "/"
                        /\ \A j \in (i + 1)..Len(url) : url[j] # "/"
         IN  SubSeq(url, last + 1, Len(url))
    ELSE url

\* .replace("-", " ")
ReplaceDash(s) == [i \in 1..Len(s) |-> IF s[i] = "-" THEN " " ELSE s[i]]

UpperChar(c) ==
    CASE c = "a" -> "A" [] c = "b" -> "B" [] c = "n" -> "N" [] OTHER -> c

LowerChar(c) ==
    CASE c = "A" -> "a" [] c = "B" -> "b" [] c = "N" -> "n" [] OTHER -> c

\* .capitalize()
Capitalize(s) ==
    [i \in 1..Len(s) |-> IF i = 1 THEN UpperChar(s[i]) ELSE LowerChar(s[i])]

\* the literal "無題"
Untitled == <<"(untitled)">>

\* title = result.get("title", ""); if not title: title = ... or "無題"
HitTitleOf(url, title) ==
    IF title # << >> THEN title
    ELSE LET generated == Capitalize(ReplaceDash(LastSegment(url)))
         IN  IF generated # << >> THEN generated ELSE Untitled

RECURSIVE CollapseRuns(_)
\* re.sub(r"\s+", " ", content)
CollapseRuns(s) ==
    IF s = << >> THEN << >>
    ELSE LET rest == CollapseRuns(Tail(s))
         IN  IF Head(s) \in Whitespace
             THEN IF rest # << >> /\ Head(rest) = " "
                  THEN rest
                  ELSE <<" ">> \o rest
             ELSE <<Head(s)>> \o rest

\* document.body.innerText of the pages a fetch can see
PageTexts == { << >>, <<" ", "\n">>, <<"a", " ", "\n", "b", " ">> }

FailureStages == {"launch", "new_context", "new_page", "goto", "evaluate"}

\* what a fetch meets: the stage that raises, or "ok" and the page text
FetchOutcomes ==
    { [stage |-> st, text |-> << >>] : st \in FailureStages }
    \cup { [stage |-> "ok", text |-> t] : t \in PageTexts }

\* WebSearchService._fetch_content_from_url: every failure yields ""
fetch_content_from_url(outcome) ==
    IF outcome.stage = "ok" THEN Strip(CollapseRuns(outcome.text)) ELSE << >>

\* BrowserAtReturn whose handler of the inner try does not close the browser
BrowserAtReturnNoCloseOnError(outcome) ==
    CASE outcome.stage = "launch" -> "none"
      [] outcome.stage \in {"new_context", "new_page", "goto", "evaluate"} -> "open"
      [] OTHER -> "closed"

\* _fetch_content_from_url: the browser the call launched, when the call
\* returns. "none": chromium.launch raised; "open": launched, and no
\* browser.close() was awaited (new_context or new_page raised, which only the
\* outer handler catches); "closed": browser.close() was awaited, in the inner
\* handler or before `return content`. browser.close() is taken to complete.
\* A cancellation of the caller arrives as CancelledError at the await of goto
\* or evaluate; CancelledError is no Exception, so neither handler runs and no
\* browser.close() is awaited.
BrowserAtReturn(outcome) ==
    CASE outcome.stage = "launch" -> "none"
      [] outcome.stage \in {"new_context", "new_page", "cancelled"} -> "open"
      [] outcome.stage \in {"goto", "evaluate"} -> "closed"
      [] OTHER -> "closed"

\* _fetch_content_from_url: both handlers catch Exception and return "", so
\* no failure of a stage leaves the function
FetchRaises(outcome) == FALSE

\* the literal f"トピック「{topic.title}」に関する情報を取得できませんでした。
\* 別の検索方法を試してください。", its Japanese parts kept as two tokens
UnavailableMessage(title) ==
    <<"(topic)[">> \o title \o <<"](could not be retrieved; try another search method)">>

\* WebFinalSources without the substitution
WebFinalSourcesNoFallback(srcs, topic_title) == srcs

\* if not sources: sources.append(NewsSource(url="", title=topic.title, ...))
WebFinalSources(srcs, topic_title) ==
    IF srcs = << >>
    THEN << NewsSource(<< >>, topic_title, UnavailableMessage(topic_title)) >>
    ELSE srcs

\* SourcesAfterHit that puts the new source in front
SourcesAfterHitInFront(srcs, url, title, content) ==
    IF url # << >> /\ content # << >>
    THEN << NewsSource(url, title, content) >> \o srcs
    ELSE srcs

\* SourcesAfterHit that tests the URL only
SourcesAfterHitUrlOnly(srcs, url, title, content) ==
    IF url # << >>
    THEN Append(srcs, NewsSource(url, title, content))
    ELSE srcs

\* the body of the loop over search_results: the sources after one hit
SourcesAfterHit(srcs, url, title, content) ==
    IF url # << >> /\ content # << >>
    THEN Append(srcs, NewsSource(url, title, content))
    ELSE srcs

-----------------------------------------------------------------------------
(* State machine: one search_topic call on the service the factory created *)

\* no _fetch_content_from_url call was made
NoFetchYet ==
    [url |-> << >>, stage |-> "none", raised |-> FALSE, content |-> << >>,
     browser |-> "none"]

\* no run of the attribution on its own is under way
AttributorIdle ==
    /\ att_given = [content |-> << >>, url_citations |-> << >>]
    /\ att_args = att_given
    /\ att_runs = << >>

\* AppService.__init__, with or without a note_poster_service, on a database
\* without rows; no call was made yet
AppConstructed(with_note_poster) ==
    /\ topic_rows = << >>
    /\ news_rows = << >>
    /\ news_created = << >>
    /\ article_rows = << >>
    /\ step_status = [topic_created |-> FALSE, news_collected |-> FALSE,
                      article_created |-> FALSE, article_improved |-> FALSE,
                      article_published |-> FALSE]
    /\ current_topic_id = << >>
    /\ current_news_id = << >>
    /\ current_article_id = << >>
    /\ note_poster = [configured |-> with_note_poster, posted |-> {}]
    /\ app_call = [op |-> "none"]

\* no call is made on an AppService
AppIdle == AppConstructed(FALSE)

\* no service instance for concurrent calls exists
ConcurrentIdle ==
    /\ instance = [service_type |-> "none", client |-> << >>]
    /\ call_pc = [c \in Callers |-> "idle"]
    /\ call_uses = [c \in Callers |-> << >>]
    /\ collect_call = [c \in Callers |-> [pc |-> "idle"]]

\* SearchServiceFactory.create_service and the service's __init__
Init ==
    /\ service_type \in {"openai", "web"}
    /\ topic \in TopicsOf(service_type)
    /\ pc = "start"
    /\ error = "none"
    /\ message = Message(<< >>, << >>)
    /\ url_contents = EmptyDict
    /\ IF service_type = "web"
       THEN search_engine \in SearchEngineValues
       ELSE search_engine = ""
    /\ engine_order = IF service_type = "web" THEN EngineOrder(search_engine) ELSE << >>
    /\ attempt_number = 0
    /\ engine_idx = 0
    /\ calls = << >>
    /\ search_results = << >>
    /\ hit_idx = 0
    /\ fetch_log = << >>
    /\ last_fetch = NoFetchYet
    /\ sources = << >>
    /\ AttributorIdle
    /\ AppIdle
    /\ ConcurrentIdle

openai_vars == <<message, url_contents>>

web_vars == <<attempt_number, engine_idx, calls, search_results, hit_idx, fetch_log,
             last_fetch>>

config_vars == <<service_type, topic, search_engine, engine_order>>

\* OpenAISearchService.search_topic: chat.completions.create raises, and no
\* statement of search_topic catches the exception
OpenAIRequestRaises ==
    /\ service_type = "openai"
    /\ pc = "start"
    /\ pc' = "raised"
    /\ error' = "APIError"
    /\ UNCHANGED <<other_vars, config_vars, openai_vars, web_vars, sources>>

\* OpenAISearchService.search_topic: chat.completions.create returns a
\* completion; message = completion.choices[0].message
OpenAIRequestReturns ==
    /\ service_type = "openai"
    /\ pc = "start"
    /\ \E m \in Responses : message' = m
    /\ pc' = "responded"
    /\ UNCHANGED <<other_vars, config_vars, error, url_contents, web_vars, sources>>

\* OpenAISearchService.search_topic: from the message to the return
OpenAIBuildSources ==
    /\ service_type = "openai"
    /\ pc = "responded"
    /\ LET summary_content == message.content
           has_annotations == message.annotations # << >>
           uc == IF has_annotations
                 THEN extract_url_related_content(
                          message.content, UrlCitations(message.annotations))
                 ELSE EmptyDict
           cited == IF has_annotations
                    THEN CitedSources(message.annotations, uc, summary_content)
                    ELSE << >>
       IN  /\ url_contents' = uc
           /\ sources' = OpenAIFinalSources(cited, uc, topic.title, summary_content)
    /\ pc' = "done"
    /\ UNCHANGED <<other_vars, config_vars, error, message, web_vars>>

\* WebSearchService.search_topic up to the call of _perform_web_search
WebSearchTopicCall ==
    /\ service_type = "web"
    /\ pc = "start"
    /\ pc' = "search"
    /\ attempt_number' = 1
    /\ engine_idx' = 1
    /\ UNCHANGED <<other_vars, config_vars, error, openai_vars, calls, search_results, hit_idx,
                   fetch_log, last_fetch, sources>>

\* _perform_web_search: one iteration of the loop over _engine_order, and
\* what the @retry wrapper does when the iteration raises
WebSearchEngine ==
    /\ pc = "search"
    /\ engine_idx <= Len(engine_order)
    /\ LET engine_name == engine_order[engine_idx]
       IN  IF engine_name \notin search_engines
           THEN /\ engine_idx' = engine_idx + 1
                /\ UNCHANGED <<pc, error, attempt_number, calls, search_results, hit_idx>>
           ELSE \E outcome \in ProviderOutcomes(engine_name), executor_fails \in BOOLEAN :
                LET try == TryEngine(engine_name, outcome, executor_fails)
                    call == [engine |-> engine_name,
                             query |-> Query(topic),
                             kind |-> CallKind(outcome, executor_fails),
                             results |-> try.results]
                IN  /\ calls' = Append(calls, call)
                    /\ IF try.raised
                       THEN IF RetryDecision(attempt_number) = "retry"
                            THEN /\ attempt_number' = attempt_number + 1
                                 /\ engine_idx' = 1
                                 /\ UNCHANGED <<pc, error, search_results, hit_idx>>
                            ELSE /\ pc' = "raised"
                                 /\ error' = "RetryError"
                                 /\ UNCHANGED <<attempt_number, engine_idx,
                                                search_results, hit_idx>>
                       ELSE IF ReturnsResults(try.results)
                            THEN /\ search_results' = try.results
                                 /\ pc' = "fetch"
                                 /\ hit_idx' = 1
                                 /\ UNCHANGED <<error, attempt_number, engine_idx>>
                            ELSE /\ engine_idx' = engine_idx + 1
                                 /\ UNCHANGED <<pc, error, attempt_number,
                                                search_results, hit_idx>>
    /\ UNCHANGED <<other_vars, config_vars, openai_vars, fetch_log, last_fetch, sources>>

\* _perform_web_search: the loop ended without a result: return []
WebSearchExhausted ==
    /\ pc = "search"
    /\ engine_idx > Len(engine_order)
    /\ search_results' = << >>
    /\ pc' = "fetch"
    /\ hit_idx' = 1
    /\ UNCHANGED <<other_vars, config_vars, error, openai_vars, attempt_number, engine_idx, calls,
                   fetch_log, last_fetch, sources>>

\* no fetch is made for a hit without URL
NoFetch == [stage |-> "none", text |-> << >>]

\* WebSearchService.search_topic: one iteration of the loop over search_results
WebFetchHit ==
    /\ pc = "fetch"
    /\ hit_idx <= Len(search_results)
    /\ LET url == search_results[hit_idx].url
           title == HitTitleOf(url, search_results[hit_idx].title)
       IN  \E outcome \in (IF url # << >> THEN FetchOutcomes ELSE {NoFetch}) :
             LET raised == url # << >> /\ FetchRaises(outcome)
                 content == IF url # << >> /\ ~raised
                            THEN fetch_content_from_url(outcome) ELSE << >>
             IN  /\ fetch_log' = Append(fetch_log,
                        [url |-> url, called |-> url # << >>, content |-> content])
                 /\ last_fetch' =
                        IF url # << >>
                        THEN [url |-> url, stage |-> outcome.stage, raised |-> raised,
                              content |-> content, browser |-> BrowserAtReturn(outcome)]
                        ELSE last_fetch
                 /\ IF raised
                    THEN /\ pc' = "raised"
                         /\ error' = "FetchError"
                         /\ UNCHANGED <<sources, hit_idx>>
                    ELSE /\ sources' = SourcesAfterHit(sources, url, title, content)
                         /\ hit_idx' = hit_idx + 1
                         /\ UNCHANGED <<pc, error>>
    /\ UNCHANGED <<other_vars, config_vars, openai_vars, attempt_number, engine_idx,
                   calls, search_results>>

\* WebSearchService.search_topic: after the loop, up to the return
WebFinish ==
    /\ pc = "fetch"
    /\ hit_idx > Len(search_results)
    /\ sources' = WebFinalSources(sources, topic.title)
    /\ pc' = "done"
    /\ UNCHANGED <<other_vars, config_vars, error, openai_vars, web_vars>>

Next ==
    \/ OpenAIRequestRaises
    \/ OpenAIRequestReturns
    \/ OpenAIBuildSources
    \/ WebSearchTopicCall
    \/ WebSearchEngine
    \/ WebSearchExhausted
    \/ WebFetchHit
    \/ WebFinish

Spec == Init /\ [][Next]_vars

\* the NewsData a finished call returned
ReturnedNewsData == NewsData(topic.id, sources)

search_vars == <<config_vars, pc, error, openai_vars, web_vars, sources>>

\* no service was created and no search_topic call is under way
SearchIdle ==
    /\ service_type = "none"
    /\ topic = [id |-> 0, title |-> << >>, description |-> << >>]
    /\ pc = "idle"
    /\ error = "none"
    /\ message = Message(<< >>, << >>)
    /\ url_contents = EmptyDict
    /\ search_engine = ""
    /\ engine_order = << >>
    /\ attempt_number = 0
    /\ engine_idx = 0
    /\ calls = << >>
    /\ search_results = << >>
    /\ hit_idx = 0
    /\ fetch_log = << >>
    /\ last_fetch = NoFetchYet
    /\ sources = << >>

-----------------------------------------------------------------------------
(* _extract_url_related_content on its own, called repeatedly with the same *)
(* two argument objects                                                      *)

MaxRuns == 2   \* calls made with one pair of arguments

\* the pairs (content, url_citations) the function is called with
AttributorInputs ==
    { [content |-> t, url_citations |-> UrlCitations(an)] :
        t \in GeneratedTexts, an \in SeqsUpTo(Annotations, MaxAnnotations) }
    \cup { [content |-> m.content, url_citations |-> UrlCitations(m.annotations)] :
             m \in SameUrlResponses \cup PartialSpanResponses }

\* ExtractRun that removes the citations it has processed from the list
ExtractRunConsuming(content, url_citations) ==
    [url_contents |-> extract_url_related_content(content, url_citations),
     content |-> content,
     url_citations |-> << >>]

\* one call of _extract_url_related_content: the dict it returns and the two
\* argument objects when it returns. The function builds a new dict, reads
\* its arguments, and assigns to no element of url_citations and to no
\* attribute of self; a str cannot be changed.
ExtractRun(content, url_citations) ==
    [url_contents |-> extract_url_related_content(content, url_citations),
     content |-> content,
     url_citations |-> url_citations]

AttributorInit ==
    /\ SearchIdle
    /\ AppIdle
    /\ ConcurrentIdle
    /\ att_given \in AttributorInputs
    /\ att_args = att_given
    /\ att_runs = << >>

\* one more call with the argument objects of the call before
AttributorRun ==
    /\ Len(att_runs) < MaxRuns
    /\ LET run == ExtractRun(att_args.content, att_args.url_citations)
       IN  /\ att_runs' = Append(att_runs, run.url_contents)
           /\ att_args' = [content |-> run.content, url_citations |-> run.url_citations]
    /\ UNCHANGED <<search_vars, att_given, db_vars, app_vars, app_call, concurrent_vars>>

AttributorNext == AttributorRun

AttributorSpec == AttributorInit /\ [][AttributorNext]_vars

-----------------------------------------------------------------------------
(* Persistence: repositories/news_repository.py, repositories/topic_repository.py *)

\* an Optional value is a sequence of no element (None) or of one element
NoValue == << >>
Some(v) == <<v>>

Digits == <<"0", "1", "2", "3", "4", "5", "6", "7", "8", "9">>
Digit(n) == Digits[n + 1]
DigitValue(c) == CHOOSE n \in 0..9 : Digits[n + 1] = c

\* a datetime: the date and the time down to the second as one number, and
\* the microsecond
Datetime(second, microsecond) == [second |-> second, microsecond |-> microsecond]

\* isoformat that never writes the microsecond
isoformatWholeSeconds(dt) == <<"D", "T", Digit(dt.second)>>

\* datetime.isoformat(): the microsecond is written only when it is not 0
isoformat(dt) ==
    <<"D", "T", Digit(dt.second)>>
    \o (IF dt.microsecond # 0 THEN <<".", Digit(dt.microsecond)>> ELSE << >>)

\* datetime.fromisoformat(): the fraction is optional
fromisoformat(text) ==
    Datetime(DigitValue(text[3]), IF Len(text) > 3 THEN DigitValue(text[5]) ELSE 0)

RECURSIVE EscapeJson(_)
\* the escapes json.dumps(..., ensure_ascii=False) writes inside a string
EscapeJson(str) ==
    IF str = << >> THEN << >>
    ELSE (CASE Head(str) = "\"" -> <<"\\", "\"">>
            [] Head(str) = "\\" -> <<"\\", "\\">>
            [] Head(str) = "\n" -> <<"\\", "n">>
            [] OTHER -> <<Head(str)>>) \o EscapeJson(Tail(str))

RECURSIVE UnescapeJson(_)
\* the escapes json.loads reads inside a string
UnescapeJson(text) ==
    IF text = << >> THEN << >>
    ELSE IF Head(text) = "\\" /\ Len(text) >= 2
         THEN (CASE text[2] = "n" -> <<"\n">>
                 [] OTHER -> <<text[2]>>) \o UnescapeJson(Tail(Tail(text)))
         ELSE <<Head(text)>> \o UnescapeJson(Tail(text))

JsonNull == <<"n", "u", "l", "l">>

\* json.dumps of a str
JsonString(str) == <<"\"">> \o EscapeJson(str) \o <<"\"">>

\* json.loads of the text of a str
JsonStringValue(text) == UnescapeJson(SubSeq(text, 2, Len(text) - 1))

\* NewsSource(url, title, content, published_at)
NewsSourceAt(url, title, content, published_at) ==
    [url |-> url, title |-> title, content |-> content, published_at |-> published_at]

\* the dict create writes for one source, each value as JSON text
SourceToJson(source) ==
    [url |-> JsonString(source.url),
     title |-> JsonString(source.title),
     content |-> JsonString(source.content),
     published_at |-> IF source.published_at # NoValue
                      THEN JsonString(isoformat(source.published_at[1]))
                      ELSE JsonNull]

\* sources_json = json.dumps([...], ensure_ascii=False)
SourcesToJson(srcs) == [i \in 1..Len(srcs) |-> SourceToJson(srcs[i])]

\* the NewsSource get_by_id builds from one dict of json.loads(row["sources"])
SourceFromJson(src) ==
    LET published_at == IF src.published_at = JsonNull THEN NoValue
                        ELSE Some(JsonStringValue(src.published_at))
    IN  NewsSourceAt(JsonStringValue(src.url),
                     JsonStringValue(src.title),
                     JsonStringValue(src.content),
                     IF published_at # NoValue /\ published_at[1] # << >>
                     THEN Some(fromisoformat(published_at[1]))
                     ELSE NoValue)

SourcesFromJson(sources_data) ==
    [i \in 1..Len(sources_data) |-> SourceFromJson(sources_data[i])]

\* NewsData(id, topic_id, sources, created_at)
StoredNewsData(id, topic_id, srcs, created_at) ==
    [id |-> id, topic_id |-> topic_id, sources |-> srcs, created_at |-> created_at]

\* a row of the table news_data
NewsRow(id, topic_id, sources_json, created_at) ==
    [id |-> id, topic_id |-> topic_id, sources |-> sources_json, created_at |-> created_at]

\* NewsRepository.create: the row inserted; cursor.lastrowid of a table with
\* AUTOINCREMENT from which no row was deleted
NewsRowCreated(rows, news_data, now) ==
    NewsRow(Len(rows) + 1, news_data.topic_id, SourcesToJson(news_data.sources),
            isoformat(now))

\* the NewsData get_by_id and get_by_topic_id build from a row
NewsDataOfRow(row) ==
    StoredNewsData(Some(row.id), row.topic_id, SourcesFromJson(row.sources),
                   Some(fromisoformat(row.created_at)))

\* NewsRepository.get_by_id: None or the NewsData of the row
news_get_by_id(rows, news_id) ==
    LET found == SelectSeq(rows, LAMBDA r : r.id = news_id)
    IN  IF found = << >> THEN NoValue ELSE Some(NewsDataOfRow(found[1]))

\* NewsRepository.get_by_topic_id: ORDER BY created_at DESC, first row; rows
\* are created at increasing times, so the first row is the last one inserted
news_get_by_topic_id(rows, topic_id) ==
    LET found == SelectSeq(rows, LAMBDA r : r.topic_id = topic_id)
    IN  IF found = << >> THEN NoValue ELSE Some(NewsDataOfRow(found[Len(found)]))

\* TopicRepository.get_by_id: None or the Topic of the row
topic_get_by_id(rows, topic_id) ==
    LET found == SelectSeq(rows, LAMBDA r : r.id = topic_id)
    IN  IF found = << >> THEN NoValue ELSE Some(found[1])

-----------------------------------------------------------------------------
(* AppService and the repositories it uses: services/app_service.py *)

MaxTopicRows == 2   \* rows of the table topics
MaxNewsRows == 1    \* rows of the table news_data

\* sources to store: quotes, backslashes and line breaks in the texts, the
\* word null as a text, no timestamp, timestamps with and without microseconds
Source1 == NewsSourceAt(U1, Title1, <<"a", "\"", "b">>, NoValue)
Source2 == NewsSourceAt(U2, <<"\\", "n">>, <<"x", "\n", "y", "\\">>, Some(Datetime(1, 0)))
Source3 == NewsSourceAt(<< >>, TopicTitle, JsonNull, Some(Datetime(2, 5)))

\* the NewsData objects handed to NewsRepository.create: id is None and
\* created_at is the default of the dataclass
NewsDataInputs ==
    { StoredNewsData(NoValue, 1, srcs, Some(Datetime(0, 0))) :
        srcs \in { << >>, <<Source1>>, <<Source1, Source2>>, <<Source2, Source1>>,
                   <<Source3, Source1, Source3>> } }

\* datetime.now() when a row is inserted: a later time for each row
Now(rows) == Datetime(Len(rows) + 1, 5)

\* a row of the table topics
TopicRow(id, title, description) == [id |-> id, title |-> title, description |-> description]

\* how a call ended: the exception it raised or "none", whether it invoked
\* search_service.search_topic, and the value it returned
Call(op, arg, raised, search_invoked, result) ==
    [op |-> op, arg |-> arg, raised |-> raised, search_invoked |-> search_invoked,
     result |-> result]

\* CollectBranch without the test of the topic
CollectBranchNoTopicTest(found_topic, existing_news) ==
    IF existing_news # NoValue THEN "existing" ELSE "new"

\* collect_news_for_topic: `if not topic: raise ValueError`, then
\* `if existing_news: ... return existing_news`, then the new collection
CollectBranch(found_topic, existing_news) ==
    IF found_topic = NoValue THEN "missing_topic"
    ELSE IF existing_news # NoValue THEN "existing" ELSE "new"

\* a row of the table articles, and the Article built from it
ArticleRow(id, topic_id, news_data_id, improved_content, status, published_at) ==
    [id |-> id, topic_id |-> topic_id, news_data_id |-> news_data_id,
     improved_content |-> improved_content, status |-> status,
     published_at |-> published_at]

\* ArticleRepository.get_by_id: None or the Article of the row
article_get_by_id(rows, article_id) ==
    LET found == SelectSeq(rows, LAMBDA r : r.id = article_id)
    IN  IF found = << >> THEN NoValue ELSE Some(found[1])

\* ArticleRepository.get_by_topic_id: ORDER BY created_at DESC; rows are
\* created at increasing times, so the list is in reverse order of insertion
article_get_by_topic_id(rows, topic_id) ==
    LET found == SelectSeq(rows, LAMBDA r : r.topic_id = topic_id)
    IN  [i \in 1..Len(found) |-> found[Len(found) + 1 - i]]

\* ArticleRepository.update: UPDATE articles SET ... WHERE id = ?
article_update(rows, article) ==
    [i \in 1..Len(rows) |-> IF rows[i].id = article.id THEN article ELSE rows[i]]

\* `if value:` on an Optional[str]: None and "" are false
Truthy(value) == value # NoValue /\ value[1] # << >>

\* what the chat completion of ArticleService gives: it raises, or it returns
\* the text of message.content
CompletionOutcomes ==
    { [raised |-> TRUE, content |-> << >>] }
    \cup { [raised |-> FALSE, content |-> <<"#", " ", "t">>] }

\* the completion that raises
CompletionRaises == [raised |-> TRUE, content |-> << >>]

\* what note_poster_service.post_article gives: it raises, or it returns
\* whether the article was posted
PostOutcomes == {"raises", "posted", "not_posted"}

\* the database and the attributes of AppService, as one value
AppState ==
    [topic_rows |-> topic_rows, news_rows |-> news_rows, news_created |-> news_created,
     article_rows |-> article_rows, step_status |-> step_status,
     current_topic_id |-> current_topic_id, current_news_id |-> current_news_id,
     current_article_id |-> current_article_id, note_poster |-> note_poster]

\* how a call on a state ended: the state it left, the exception it raised or
\* "none", whether it invoked search_topic, and the value it returned
Ended(state, raised, search_invoked, result) ==
    [state |-> state, raised |-> raised, search_invoked |-> search_invoked,
     result |-> result]

\* create_topic without the reset of the later flags
create_topicKeepsFlags(st, description) ==
    LET created_topic == TopicRow(Len(st.topic_rows) + 1, TopicTitle, description)
    IN  Ended([st EXCEPT !.topic_rows = Append(@, created_topic),
                         !.step_status = [@ EXCEPT !.topic_created = TRUE],
                         !.current_topic_id = Some(created_topic.id)],
              "none", FALSE, Some(created_topic))

\* AppService.create_topic
create_topic(st, description) ==
    LET created_topic == TopicRow(Len(st.topic_rows) + 1, TopicTitle, description)
    IN  Ended([st EXCEPT !.topic_rows = Append(@, created_topic),
                         !.step_status =
                             [topic_created |-> TRUE, news_collected |-> FALSE,
                              article_created |-> FALSE, article_improved |-> FALSE,
                              article_published |-> FALSE],
                         !.current_topic_id = Some(created_topic.id)],
              "none", FALSE, Some(created_topic))

\* AppService.collect_news_for_topic
collect_news_for_topic(st, topic_id) ==
    LET found_topic == topic_get_by_id(st.topic_rows, topic_id)
        existing_news == news_get_by_topic_id(st.news_rows, topic_id)
        branch == CollectBranch(found_topic, existing_news)
    IN  CASE branch = "missing_topic" -> Ended(st, "ValueError", FALSE, NoValue)
          [] branch = "existing" ->
               Ended([st EXCEPT !.step_status = [@ EXCEPT !.topic_created = TRUE,
                                                          !.news_collected = TRUE],
                                !.current_topic_id = Some(topic_id),
                                !.current_news_id = existing_news[1].id],
                     "none", FALSE, existing_news)
          [] OTHER ->
               \* search_topic is a coroutine function and is called without
               \* await: news_data is a coroutine object, and create raises
               \* AttributeError when it reads news_data.sources, before the
               \* INSERT
               Ended(st, "AttributeError", TRUE, NoValue)

\* AppService.create_article_for_topic; `written` is what the completion of
\* ArticleService.create_article_from_news gives
create_article_for_topic(st, topic_id, written) ==
    LET found_topic == topic_get_by_id(st.topic_rows, topic_id)
        stored_news == news_get_by_topic_id(st.news_rows, topic_id)
        collected == IF stored_news = NoValue
                     THEN collect_news_for_topic(st, topic_id)
                     ELSE Ended(st, "none", FALSE, stored_news)
        st1 == collected.state
        news_data == collected.result[1]
        existing_articles == article_get_by_topic_id(st1.article_rows, topic_id)
        latest_article == existing_articles[1]
        created_article == ArticleRow(Len(st1.article_rows) + 1, topic_id, news_data.id,
                                      NoValue, "draft", NoValue)
    IN  IF found_topic = NoValue THEN Ended(st, "ValueError", FALSE, NoValue)
        ELSE IF collected.raised # "none"
        THEN Ended(st1, collected.raised, collected.search_invoked, NoValue)
        ELSE IF existing_articles # << >>
        THEN Ended([st1 EXCEPT
                      !.step_status =
                          [topic_created |-> TRUE, news_collected |-> TRUE,
                           article_created |-> TRUE,
                           article_improved |-> latest_article.improved_content # NoValue,
                           article_published |-> latest_article.status = "published"],
                      !.current_topic_id = Some(topic_id),
                      !.current_news_id = news_data.id,
                      !.current_article_id = Some(latest_article.id)],
                   "none", collected.search_invoked, Some(latest_article))
        ELSE IF written.raised
        THEN Ended(st1, "APIError", collected.search_invoked, NoValue)
        ELSE Ended([st1 EXCEPT
                      !.article_rows = Append(@, created_article),
                      !.step_status = [@ EXCEPT !.topic_created = TRUE,
                                                !.news_collected = TRUE,
                                                !.article_created = TRUE],
                      !.current_topic_id = Some(topic_id),
                      !.current_news_id = news_data.id,
                      !.current_article_id = Some(created_article.id)],
                   "none", collected.search_invoked, Some(created_article))

\* AppService.improve_article, with ArticleService.improve_article; `improved`
\* is what the completion of ArticleService.improve_article gives
improve_article(st, article_id, improved) ==
    LET found == article_get_by_id(st.article_rows, article_id)
        article == found[1]
        improved_article == [article EXCEPT !.improved_content = Some(improved.content),
                                            !.status = "improved"]
        flags == [st.step_status EXCEPT !.topic_created = TRUE,
                                        !.news_collected = TRUE,
                                        !.article_created = TRUE,
                                        !.article_improved = TRUE]
    IN  IF found = NoValue THEN Ended(st, "ValueError", FALSE, NoValue)
        ELSE IF Truthy(article.improved_content)
        THEN Ended([st EXCEPT !.step_status = flags,
                              !.current_topic_id = Some(article.topic_id),
                              !.current_article_id = Some(article_id)],
                   "none", FALSE, Some(article))
        ELSE IF improved.raised
        THEN Ended(st, "APIError", FALSE, NoValue)
        ELSE Ended([st EXCEPT !.article_rows = article_update(@, improved_article),
                              !.step_status = flags,
                              !.current_topic_id = Some(article.topic_id),
                              !.current_article_id = Some(article_id)],
                   "none", FALSE, Some(improved_article))

\* AppService.post_article_to_note; `posting` is what post_article gives
post_article_to_note(st, article_id, posting) ==
    LET found == article_get_by_id(st.article_rows, article_id)
        article == found[1]
        invoked == [st EXCEPT !.note_poster.posted =
                       @ \cup {[article_id |-> article_id,
                                published_before |-> article.published_at # NoValue]}]
        published_article ==
            [article EXCEPT !.status = "published",
                            !.published_at = Some(Now(st.article_rows))]
        flags == [topic_created |-> TRUE, news_collected |-> TRUE,
                  article_created |-> TRUE,
                  article_improved |-> article.improved_content # NoValue,
                  article_published |-> TRUE]
    IN  IF ~st.note_poster.configured THEN Ended(st, "ValueError", FALSE, NoValue)
        ELSE IF found = NoValue THEN Ended(st, "ValueError", FALSE, NoValue)
        ELSE IF article.status = "published"
        THEN Ended([st EXCEPT !.step_status = flags,
                              !.current_topic_id = Some(article.topic_id),
                              !.current_article_id = Some(article_id)],
                   "none", FALSE, Some(TRUE))
        ELSE CASE posting = "raises" -> Ended(invoked, "PostError", FALSE, NoValue)
               [] posting = "not_posted" -> Ended(invoked, "none", FALSE, Some(FALSE))
               [] OTHER ->
                    Ended([invoked EXCEPT
                             !.article_rows = article_update(@, published_article),
                             !.step_status = flags,
                             !.current_topic_id = Some(article.topic_id),
                             !.current_article_id = Some(article_id)],
                          "none", FALSE, Some(TRUE))

\* the dict `result` of run_full_process, with the steps the call has entered,
\* the step it enters next ("returned" after `return result`) and the
\* exception the last step entered raised ("none" if it returned)
RunResult(steps, next, raised, success, messages, created_topic, news_data, article, improved_article, note_posted) ==
    [steps |-> steps, next |-> next, raised |-> raised, success |-> success,
     messages |-> messages,
     topic |-> created_topic, news_data |-> news_data, article |-> article,
     improved_article |-> improved_article, note_posted |-> note_posted]

\* RunExcept without the except clause
RunExceptNothing(raised, result) ==
    [raised |-> raised, result |-> [result EXCEPT !.next = "returned"]]

\* run_full_process: `except Exception as e:`, entered from the step that
\* raised, with the dict as the steps before it have filled it
RunExcept(raised, result) ==
    [raised |-> "none",
     result |-> [result EXCEPT !.next = "returned", !.success = FALSE,
                               !.messages = Append(@, "error")]]

AppInit ==
    /\ SearchIdle
    /\ AttributorIdle
    /\ AppIdle
    /\ ConcurrentIdle

\* a run_full_process call has not returned yet
RunInProgress ==
    /\ app_call.op = "run_full_process"
    /\ app_call.result[1].next # "returned"

\* the database and the attributes of AppService after a call that ended as
\* `ended` tells
ApplyState(ended) ==
    /\ topic_rows' = ended.state.topic_rows
    /\ news_rows' = ended.state.news_rows
    /\ news_created' = ended.state.news_created
    /\ article_rows' = ended.state.article_rows
    /\ step_status' = ended.state.step_status
    /\ current_topic_id' = ended.state.current_topic_id
    /\ current_news_id' = ended.state.current_news_id
    /\ current_article_id' = ended.state.current_article_id
    /\ note_poster' = ended.state.note_poster
    /\ UNCHANGED <<search_vars, attributor_vars, concurrent_vars>>

\* a call of op(arg) on AppService, made while no other call is under way,
\* ended as `ended` tells
Apply(op, arg, ended) ==
    /\ ~RunInProgress
    /\ ApplyState(ended)
    /\ app_call' = Call(op, arg, ended.raised, ended.search_invoked, ended.result)

\* AppService.create_topic
CreateTopic ==
    /\ Len(topic_rows) < MaxTopicRows
    /\ \E description \in {<< >>, <<"d">>} :
         Apply("create_topic", description, create_topic(AppState, description))

\* AppService.collect_news_for_topic(topic_id)
CollectNewsForTopicOf(topic_id) ==
    Apply("collect_news_for_topic", topic_id, collect_news_for_topic(AppState, topic_id))

CollectNewsForTopic ==
    \E topic_id \in 1..(MaxTopicRows + 1) : CollectNewsForTopicOf(topic_id)

\* a call on AppService ended as `ended` tells, in a process that keeps of the
\* call only the exception it raised
ApplyRaised(ended) ==
    /\ ApplyState(ended)
    /\ app_call' = [op |-> "call", raised |-> ended.raised]

\* AppService.create_article_for_topic(topic_id); a call that does not reach
\* the completion is one call, whatever the completion would give
CreateArticleForTopic ==
    \E topic_id \in 1..(MaxTopicRows + 1), written \in CompletionOutcomes :
        /\ \/ written = CompletionRaises
           \/ create_article_for_topic(AppState, topic_id, CompletionRaises).raised
                  = "APIError"
        /\ ApplyRaised(create_article_for_topic(AppState, topic_id, written))

\* the ids of the rows of the table articles, and one that no row has
ArticleIds == 1..(Len(article_rows) + 1)

\* AppService.improve_article(article_id); a call that does not reach the
\* completion is one call, whatever the completion would give
ImproveArticle ==
    \E article_id \in ArticleIds, improved \in CompletionOutcomes :
        /\ \/ improved = CompletionRaises
           \/ improve_article(AppState, article_id, CompletionRaises).raised = "APIError"
        /\ ApplyRaised(improve_article(AppState, article_id, improved))

\* AppService.post_article_to_note(article_id); a call that does not reach
\* post_article is one call, whatever post_article would give
PostArticleToNote ==
    \E article_id \in ArticleIds, posting \in PostOutcomes :
        /\ \/ posting = "raises"
           \/ post_article_to_note(AppState, article_id, "raises").raised = "PostError"
        /\ ApplyRaised(post_article_to_note(AppState, article_id, posting))

\* run_full_process is at the call of `step`
RunAt(step) ==
    /\ app_call.op = "run_full_process"
    /\ app_call.result[1].next = step

\* run_full_process after the call of a step ended as `ended` tells: the
\* except clause when the step raised, and otherwise the dict as filled and
\* the step that follows
RunAfter(ended, filled, next) ==
    LET entered == [app_call.result[1] EXCEPT !.steps = Append(@, app_call.result[1].next),
                                              !.raised = ended.raised]
        caught == RunExcept(ended.raised, entered)
    IN  /\ ApplyState(ended)
        /\ app_call' =
             IF ended.raised # "none"
             THEN [app_call EXCEPT !.raised = caught.raised,
                                   !.result = Some(caught.result)]
             ELSE [app_call EXCEPT !.result =
                      Some([filled EXCEPT !.steps = entered.steps, !.next = next])]

\* AppService.run_full_process(topic_title, post_to_note=...), the description
\* left at its default None, up to step 1: create_topic
RunFullProcess ==
    /\ ~RunInProgress
    /\ Len(topic_rows) < MaxTopicRows
    /\ \E post_to_note \in BOOLEAN :
         LET ended == create_topic(AppState, NoValue)
         IN  /\ ApplyState(ended)
             /\ app_call' =
                  Call("run_full_process", post_to_note, "none", FALSE,
                       Some(RunResult(<<"create_topic">>, "collect_news_for_topic",
                                      "none", TRUE, <<"topic_created">>, ended.result,
                                      NoValue, NoValue, NoValue, FALSE)))

\* run_full_process, step 2: collect_news_for_topic(topic.id)
RunCollectNews ==
    /\ RunAt("collect_news_for_topic")
    /\ LET result == app_call.result[1]
           ended == collect_news_for_topic(AppState, result.topic[1].id)
       IN  RunAfter(ended,
                    [result EXCEPT !.news_data = ended.result,
                                   !.messages = Append(@, "news_collected")],
                    "create_article_for_topic")

\* run_full_process, step 3: create_article_for_topic(topic.id)
RunCreateArticle ==
    /\ RunAt("create_article_for_topic")
    /\ \E written \in CompletionOutcomes :
         LET result == app_call.result[1]
             ended == create_article_for_topic(AppState, result.topic[1].id, written)
         IN  RunAfter(ended,
                      [result EXCEPT !.article = ended.result,
                                     !.messages = Append(@, "article_created")],
                      "improve_article")

\* run_full_process, step 4: improve_article(article.id), and the test
\* `if post_to_note and self.note_poster_service`
RunImproveArticle ==
    /\ RunAt("improve_article")
    /\ \E improved \in CompletionOutcomes :
         LET result == app_call.result[1]
             ended == improve_article(AppState, result.article[1].id, improved)
         IN  RunAfter(ended,
                      [result EXCEPT !.improved_article = ended.result,
                                     !.messages = Append(@, "article_improved")],
                      IF app_call.arg /\ note_poster.configured
                      THEN "post_article_to_note" ELSE "returned")

\* run_full_process, step 5: post_article_to_note(improved_article.id)
RunPostArticle ==
    /\ RunAt("post_article_to_note")
    /\ \E posting \in PostOutcomes :
         LET result == app_call.result[1]
             ended == post_article_to_note(AppState, result.improved_article[1].id,
                                           posting)
         IN  RunAfter(ended,
                      [result EXCEPT
                         !.note_posted = ended.result[1],
                         !.messages = Append(@, IF ended.result[1] THEN "note_posted"
                                                ELSE "note_failed")],
                      "returned")

\* NewsRepository.create(news_data)
NewsCreate ==
    /\ Len(news_rows) < MaxNewsRows
    /\ \E news_data \in NewsDataInputs :
         LET row == NewsRowCreated(news_rows, news_data, Now(news_rows))
         IN  /\ news_rows' = Append(news_rows, row)
             /\ news_created' = Append(news_created, news_data)
             /\ app_call' = Call("news_create", news_data, "none", FALSE,
                    Some(StoredNewsData(Some(row.id), news_data.topic_id,
                                        news_data.sources,
                                        Some(fromisoformat(row.created_at)))))
    /\ UNCHANGED <<search_vars, attributor_vars, concurrent_vars, topic_rows, article_rows,
                   app_vars>>

\* NewsRepository.get_by_id(news_id)
NewsGetById ==
    /\ \E news_id \in 1..(MaxNewsRows + 1) :
         app_call' = Call("news_get_by_id", news_id, "none", FALSE,
                          news_get_by_id(news_rows, news_id))
    /\ UNCHANGED <<search_vars, attributor_vars, concurrent_vars, db_vars, app_vars>>

AppNext ==
    \/ CreateTopic
    \/ CollectNewsForTopic
    \/ NewsCreate
    \/ NewsGetById

AppSpec == AppInit /\ [][AppNext]_vars

-----------------------------------------------------------------------------
(* The operations of AppService on one instance, from topic to posting *)

\* AppService.__init__ with or without a note_poster_service (main.py)
ProcessInit ==
    /\ SearchIdle
    /\ AttributorIdle
    /\ \E with_note_poster \in BOOLEAN : AppConstructed(with_note_poster)
    /\ ConcurrentIdle

\* NewsRepository.create, called by another user of the database, of a
\* NewsData with one source, for a topic id: the
\* table does not check that a topic with that id exists
StoreNews ==
    /\ Len(news_rows) < MaxNewsRows
    /\ \E topic_id \in 1..MaxTopicRows :
         LET news_data == StoredNewsData(NoValue, topic_id, <<Source1>>,
                                         Some(Datetime(0, 0)))
             row == NewsRowCreated(news_rows, news_data, Now(news_rows))
         IN  /\ news_rows' = Append(news_rows, row)
             /\ news_created' = Append(news_created, news_data)
    /\ UNCHANGED <<search_vars, attributor_vars, concurrent_vars, topic_rows, article_rows,
                   app_vars, app_call>>

\* AppService.create_topic(title), description left at its default None
CreateTopicTitled ==
    /\ Len(topic_rows) < MaxTopicRows
    /\ ApplyRaised(create_topic(AppState, NoValue))

\* AppService.collect_news_for_topic(topic_id)
CollectNews ==
    \E topic_id \in 1..(MaxTopicRows + 1) :
        ApplyRaised(collect_news_for_topic(AppState, topic_id))

ProcessNext ==
    \/ CreateTopicTitled
    \/ CollectNews
    \/ CreateArticleForTopic
    \/ ImproveArticle
    \/ PostArticleToNote
    \/ StoreNews

\* the operations of AppService called one after the other, on a database that
\* other callers store news in
ProcessSpec == ProcessInit /\ [][ProcessNext]_vars

RunNext ==
    \/ RunFullProcess
    \/ RunCollectNews
    \/ RunCreateArticle
    \/ RunImproveArticle
    \/ RunPostArticle
    \/ StoreNews

\* run_full_process called again and again, on a database that other callers
\* store news in
RunSpec == ProcessInit /\ [][RunNext]_vars

-----------------------------------------------------------------------------
(* Two concurrent search_topic calls on one service instance: the resources *)
(* each call uses                                                            *)

\* a client, browser or connection object: `id` tells objects apart, `state`
\* is "open" or "closed"
Resource(kind, id, state) == [kind |-> kind, id |-> id, state |-> state]

\* OpenAISearchService.__init__: self.client = OpenAI(api_key=self.api_key),
\* one object for the lifetime of the instance; WebSearchService has no client
InstanceOf(service) ==
    [service_type |-> service,
     client |-> IF service = "openai"
                THEN Some(Resource("client", <<"self", "client">>, "open"))
                ELSE NoValue]

ConcurrentInit ==
    /\ SearchIdle
    /\ AttributorIdle
    /\ AppIdle
    /\ instance \in { InstanceOf(service) : service \in {"openai", "web"} }
    /\ call_pc = [c \in Callers |-> "start"]
    /\ call_uses = [c \in Callers |-> << >>]
    /\ collect_call = [c \in Callers |-> [pc |-> "idle"]]

\* OpenAISearchService.search_topic of call c: the request is made on
\* self.client, which no statement of the call closes; the request returns or
\* raises
ConcurrentOpenAIRequest ==
    \E c \in Callers, ended \in {"done", "raised"} :
        /\ instance.service_type = "openai"
        /\ call_pc[c] = "start"
        /\ call_uses' = [call_uses EXCEPT ![c] = Append(@, instance.client[1])]
        /\ call_pc' = [call_pc EXCEPT ![c] = ended]
        /\ UNCHANGED <<search_vars, attributor_vars, db_vars, app_vars, app_call, instance,
                       collect_call>>

\* the caller of search_topic is cancelled while the fetch awaits the page
CancelledFetch == [stage |-> "cancelled", text |-> << >>]

\* _fetch_content_from_url, lines 422-424: the objects the call has created
\* when it ends: launch, new_context and new_page are awaited in this order
OpenedBy(outcome) ==
    CASE outcome.stage = "launch" -> << >>
      [] outcome.stage = "new_context" -> <<"browser">>
      [] outcome.stage = "new_page" -> <<"browser", "context">>
      [] OTHER -> <<"browser", "context", "page">>

\* the objects the n-th fetch of call c has created, as they are when control
\* leaves _fetch_content_from_url: the function closes nothing but the browser
\* (lines 436, 440), and a closed browser has closed its context and page
FetchResources(c, n, outcome) ==
    [k \in 1..Len(OpenedBy(outcome)) |->
        Resource(OpenedBy(outcome)[k], <<c, n, k>>, BrowserAtReturn(outcome))]

\* the browsers call c has launched
BrowsersOf(uses) == SelectSeq(uses, LAMBDA r : r.kind = "browser")

\* WebSearchService.search_topic of call c: one _fetch_content_from_url,
\* which starts a playwright driver and launches a browser of its own; the
\* fetch returns, or the call is cancelled in it
ConcurrentWebFetch ==
    \E c \in Callers, outcome \in FetchOutcomes \cup {CancelledFetch} :
        /\ instance.service_type = "web"
        /\ call_pc[c] \in {"start", "fetching"}
        /\ Len(BrowsersOf(call_uses[c])) < MaxHits
        /\ call_uses' = [call_uses EXCEPT ![c] =
               @ \o FetchResources(c, Len(BrowsersOf(@)) + 1, outcome)]
        /\ call_pc' = [call_pc EXCEPT ![c] =
               IF outcome = CancelledFetch THEN "cancelled" ELSE "fetching"]
        /\ UNCHANGED <<search_vars, attributor_vars, db_vars, app_vars, app_call, instance,
                       collect_call>>

\* WebSearchService.search_topic of call c returns
ConcurrentWebReturn ==
    \E c \in Callers :
        /\ instance.service_type = "web"
        /\ call_pc[c] \in {"start", "fetching"}
        /\ call_pc' = [call_pc EXCEPT ![c] = "done"]
        /\ UNCHANGED <<search_vars, attributor_vars, db_vars, app_vars, app_call, instance,
                       call_uses, collect_call>>

ConcurrentNext ==
    \/ ConcurrentOpenAIRequest
    \/ ConcurrentWebFetch
    \/ ConcurrentWebReturn

ConcurrentSpec == ConcurrentInit /\ [][ConcurrentNext]_vars

-----------------------------------------------------------------------------
(* Two concurrent collect_news_for_topic calls on one AppService: the method *)
(* takes no lock and each repository call opens a connection of its own, so  *)
(* the calls interleave between the statements that read or write the tables *)

\* a collect_news_for_topic call at `position`: the topic id it was given, the
\* exception it raised or "none", the record it returned, and whether it
\* invoked search_topic and inserted a row
CollectCall(position, topic_id, raised, result, searched, created) ==
    [pc |-> position, topic_id |-> topic_id, raised |-> raised, result |-> result,
     searched |-> searched, created |-> created]

\* collect_news_for_topic of call c, lines 104-106: topic_repo.get_by_id and
\* `if not topic: raise ValueError`
CollectGetTopic ==
    \E c \in Callers, topic_id \in 1..MaxTopicRows :
        /\ collect_call[c].pc = "idle"
        /\ collect_call' = [collect_call EXCEPT ![c] =
               IF topic_get_by_id(topic_rows, topic_id) = NoValue
               THEN CollectCall("done", topic_id, "ValueError", NoValue, FALSE, FALSE)
               ELSE CollectCall("got_topic", topic_id, "none", NoValue, FALSE, FALSE)]
        /\ UNCHANGED <<search_vars, attributor_vars, db_vars, app_vars, app_call, instance,
                       call_pc, call_uses>>

\* collect_news_for_topic of call c, lines 109-119: news_repo.get_by_topic_id
\* and the return of the stored record
CollectGetExistingNews ==
    \E c \in Callers :
        LET topic_id == collect_call[c].topic_id
            existing_news == news_get_by_topic_id(news_rows, topic_id)
        IN  /\ collect_call[c].pc = "got_topic"
            /\ IF existing_news # NoValue
               THEN /\ step_status' = [step_status EXCEPT !.topic_created = TRUE,
                                                          !.news_collected = TRUE]
                    /\ current_topic_id' = Some(topic_id)
                    /\ current_news_id' = existing_news[1].id
                    /\ collect_call' = [collect_call EXCEPT ![c] =
                           CollectCall("done", topic_id, "none", existing_news, FALSE, FALSE)]
               ELSE /\ collect_call' = [collect_call EXCEPT ![c].pc = "collecting"]
                    /\ UNCHANGED <<step_status, current_topic_id, current_news_id>>
            /\ UNCHANGED <<search_vars, attributor_vars, db_vars, current_article_id,
                           note_poster, app_call, instance, call_pc, call_uses>>

\* collect_news_for_topic of call c, lines 122-123: search_topic is called
\* without await and gives a coroutine object; news_repo.create raises
\* AttributeError on it before the INSERT
CollectSearchAndCreate ==
    \E c \in Callers :
        /\ collect_call[c].pc = "collecting"
        /\ collect_call' = [collect_call EXCEPT ![c] =
               CollectCall("done", collect_call[c].topic_id, "AttributeError", NoValue,
                           TRUE, FALSE)]
        /\ UNCHANGED <<search_vars, attributor_vars, db_vars, app_vars, app_call, instance,
                       call_pc, call_uses>>

CollectNext ==
    \/ CreateTopic
    \/ StoreNews
    \/ CollectGetTopic
    \/ CollectGetExistingNews
    \/ CollectSearchAndCreate

CollectSpec == AppInit /\ [][CollectNext]_vars

-----------------------------------------------------------------------------
(* Properties *)

WebCall == service_type = "web"
OpenAICall == service_type = "openai"

\* _perform_web_search has returned
SearchReturned == WebCall /\ pc \in {"fetch", "done"}

\* positions in the log of the invocations of one engine
CallsOf(engine_name) == { i \in 1..Len(calls) : calls[i].engine = engine_name }

\* the citations of the response received and the span of the i-th of them
Citations == UrlCitations(message.annotations)
SpanOfCitation(i) == CitationSpan(message.content, Citations, Citations[i].text)

\* C1 (as claimed): when the first backend of the order raises on every
\* attempt and the second backend returns one hit on its first attempt, the
\* list returned by _perform_web_search is the second backend's hit list and
\* the first backend was invoked exactly 3 times during the call.
C1_FirstBackendTriedThreeTimes ==
    ( /\ SearchReturned
      /\ Len(engine_order) = 2
      /\ CallsOf(engine_order[1]) # {}
      /\ \A i \in CallsOf(engine_order[1]) : calls[i].kind = "provider_error"
      /\ CallsOf(engine_order[2]) # {}
      /\ LET first == CHOOSE i \in CallsOf(engine_order[2]) :
                         \A j \in CallsOf(engine_order[2]) : i <= j
         IN  calls[first].kind = "returned" /\ Len(calls[first].results) = 1 )
    => ( /\ search_results = calls[Len(calls)].results
         /\ Cardinality(CallsOf(engine_order[1])) = StopAfterAttempt )

\* C2: whenever search_topic of either strategy returns, the NewsData it
\* returns has at least one source.
C2_SourcesNeverEmpty ==
    pc = "done" => Len(ReturnedNewsData.sources) >= 1

\* Strategy B returned although hits were found and no fetch gave content
C2_Witness ==
    /\ WebCall /\ pc = "done"
    /\ search_results # << >>
    /\ \A i \in 1..Len(fetch_log) : fetch_log[i].content = << >>
    /\ Len(ReturnedNewsData.sources) = 1

\* C3 (as claimed): a search_topic call for a valid topic never terminates
\* with an exception, whichever backend, fetch or model request fails.
C3_NeverRaises ==
    pc # "raised" /\ error = "none"

\* the single synthetic source of Strategy B
SyntheticSource == NewsSource(<< >>, topic.title, UnavailableMessage(topic.title))

\* C4: in Strategy B, when every backend returned zero raw hits, or hits
\* exist but none yields nonempty fetched content, exactly one Source is
\* returned: empty URL, the topic title, the fixed could-not-retrieve message.
C4_SyntheticSourceWhenNothingUsable ==
    ( /\ WebCall /\ pc = "done"
      /\ \/ search_results = << >>
         \/ \A i \in 1..Len(fetch_log) : fetch_log[i].content = << >> )
    => ReturnedNewsData.sources = << SyntheticSource >>

\* every backend was asked, every one gave zero hits
C4_Witness ==
    /\ WebCall /\ pc = "done"
    /\ Len(calls) = Len(engine_order)
    /\ \A i \in 1..Len(calls) : calls[i].results = << >>
    /\ search_results = << >>
    /\ ReturnedNewsData.sources = << SyntheticSource >>

\* hits exist, fetches were made, none gave content
C4_WitnessNoContent ==
    /\ WebCall /\ pc = "done"
    /\ Len(search_results) >= 2
    /\ \E i \in 1..Len(fetch_log) : fetch_log[i].called
    /\ \A i \in 1..Len(fetch_log) : fetch_log[i].content = << >>
    /\ ReturnedNewsData.sources = << SyntheticSource >>

\* C5: backends are tried in the configured order, and the first one that
\* returns a nonempty list ends the search: its list is returned unchanged and
\* no later backend is invoked.
C5_FirstNonemptyBackendWins ==
    WebCall =>
      /\ \A i \in 1..Len(calls) : i <= Len(engine_order) /\ calls[i].engine = engine_order[i]
      /\ \A i \in 1..Len(calls) :
            calls[i].results # << >> =>
              /\ i = Len(calls)
              /\ SearchReturned
              /\ search_results = calls[i].results
              /\ \A k \in 1..Len(search_results) :
                    search_results[k].url = calls[i].results[k].url

\* the first backend of two returned hits, the second was never invoked
C5_Witness ==
    /\ SearchReturned
    /\ Len(engine_order) = 2
    /\ Len(calls) = 1
    /\ calls[1].engine = engine_order[1]
    /\ calls[1].results # << >>
    /\ search_results = calls[1].results

\* C6: _perform_web_search never raises; when every backend returned an
\* empty list or failed, it returns the empty list, not a retry error.
C6_SearchNeverRaises ==
    WebCall =>
      /\ pc # "raised"
      /\ error = "none"
      /\ (pc = "search" /\ engine_idx > Len(engine_order)) => ENABLED WebSearchExhausted
      /\ (SearchReturned /\ \A i \in 1..Len(calls) : calls[i].results = << >>)
            => (search_results = << >> /\ Len(calls) = Len(engine_order))

\* one backend failed in the executor, the other in the provider: [] returned
C6_Witness ==
    /\ SearchReturned
    /\ Len(calls) = 2
    /\ calls[1].kind = "executor_error"
    /\ calls[2].kind = "provider_error"
    /\ search_results = << >>

\* a response with exactly two citations, both with a span
TwoResolvedCitations ==
    /\ OpenAICall /\ pc = "done"
    /\ Len(Citations) = 2
    /\ \A i \in 1..2 : SpanOfCitation(i).found /\ SpanOfCitation(i).related_content # << >>

\* the two citations in the order of their first appearance in the text
ByFirstAppearance ==
    IF SpanOfCitation(1).start_pos <= SpanOfCitation(2).start_pos
    THEN <<1, 2>> ELSE <<2, 1>>

\* C7 (as claimed): for a response with two citations that both resolve to
\* nonempty spans, exactly 2 Sources are returned, each with the span of its
\* own citation, ordered by the citations' first appearance in the text.
C7_SourcesByFirstAppearance ==
    TwoResolvedCitations =>
      ReturnedNewsData.sources =
        [i \in 1..2 |->
            NewsSource(Citations[ByFirstAppearance[i]].url,
                       Citations[ByFirstAppearance[i]].title,
                       SpanOfCitation(ByFirstAppearance[i]).related_content)]

\* C7 (amended): for a response with two citations that both resolve to
\* nonempty spans, exactly 2 Sources are returned, in the order of the
\* annotations, each with the URL and title of its citation; the content of
\* each is the span recorded for its URL: the span of its own citation when
\* the two URLs differ, the span of the later annotation when both cite one URL.
C7_SourcesInAnnotationOrder ==
    TwoResolvedCitations =>
      /\ Len(ReturnedNewsData.sources) = 2
      /\ \A i \in 1..2 :
            /\ ReturnedNewsData.sources[i].url = Citations[i].url
            /\ ReturnedNewsData.sources[i].title = Citations[i].title
            /\ ReturnedNewsData.sources[i].content =
                 IF Citations[1].url # Citations[2].url
                 THEN SpanOfCitation(i).related_content
                 ELSE SpanOfCitation(2).related_content

\* two citations of different URLs, annotated in the reverse of text order
C7_Witness ==
    /\ TwoResolvedCitations
    /\ Citations[1].url # Citations[2].url
    /\ SpanOfCitation(1).start_pos > SpanOfCitation(2).start_pos
    /\ ReturnedNewsData.sources[1].content # ReturnedNewsData.sources[2].content

ExampleMarker1 == CitationText(Title1, U1)
ExampleMarker2 == CitationText(Title2, U2)

\* "A text. ([Cite1](u1)) more text."
ExampleSpan1 ==
    <<"A", " ", "t", "e", "x", "t", ".", " ",
      "(", "[", "C", "i", "t", "e", "1", "]", "(", "u", "1", ")", ")",
      " ", "m", "o", "r", "e", " ", "t", "e", "x", "t", ".">>

\* s is the part of text that starts at position from (0-based)
OccursAt(text, s, from) == MatchAt(text, s, from)

\* C8 (as claimed): for fullText "A text. [Cite1](u1) more text. [Cite2](u2)
\* tail." and the marker texts "([Cite1](u1))" and "([Cite2](u2))", a span is
\* produced for u1 that ends before the u2 occurrence, and one for u2 that
\* extends to end-of-text.
C8_ExampleSpans ==
    (OpenAICall /\ pc = "done" /\ message = Message(ExampleText, ExampleAnnotations))
    => /\ U1 \in DOMAIN url_contents
       /\ U2 \in DOMAIN url_contents
       /\ \E e \in 1..Find(ExampleText, <<"[", "C", "i", "t", "e", "2">>, 0) :
             /\ \E b \in 0..e : Strip(Slice(ExampleText, b, e)) = url_contents[U1]
       /\ \E b \in 0..Len(ExampleText) :
             Strip(Slice(ExampleText, b, Len(ExampleText))) = url_contents[U2]

\* C8 (amended): for fullText "A text. ([Cite1](u1)) more text. ([Cite2](u2))
\* tail.", in which the marker texts occur literally, the span for u1 is
\* "A text. ([Cite1](u1)) more text." and ends before the u2 occurrence, and
\* the span for u2 extends to end-of-text; for the text without the outer
\* parentheses no marker text occurs and no span is produced.
C8_ExampleSpansLiteral ==
    /\ (OpenAICall /\ pc = "done"
        /\ message = Message(ExampleTextLiteral, ExampleAnnotations))
       => /\ DOMAIN url_contents = {U1, U2}
          /\ url_contents[U1] = ExampleSpan1
          /\ OccursAt(ExampleTextLiteral, url_contents[U1], 0)
          /\ Len(url_contents[U1]) <= Find(ExampleTextLiteral, ExampleMarker2, 0)
          /\ url_contents[U2] = ExampleTextLiteral
    /\ (OpenAICall /\ pc = "done" /\ message = Message(ExampleText, ExampleAnnotations))
       => DOMAIN url_contents = {}

C8_Witness ==
    /\ OpenAICall /\ pc = "done"
    /\ message = Message(ExampleTextLiteral, ExampleAnnotations)
    /\ U1 \in DOMAIN url_contents
    /\ U2 \in DOMAIN url_contents

\* C9: in Strategy A, a response without citation markers (no annotations, or
\* none with a url_citation) gives exactly one Source: the entire response
\* text as content, the topic title as title, an empty URL.
C9_NoMarkersSingleSource ==
    (OpenAICall /\ pc = "done" /\ Citations = << >>)
    => ReturnedNewsData.sources = << NewsSource(<< >>, topic.title, message.content) >>

\* annotations exist, none is a url_citation, and the text is longer than
\* the filler length
C9_Witness ==
    /\ OpenAICall /\ pc = "done"
    /\ message.annotations # << >>
    /\ Citations = << >>
    /\ Len(message.content) > FillerLen
    /\ Len(ReturnedNewsData.sources) = 1

\* markers exist and attribution gave no span for any of them
MarkersWithoutSpans ==
    /\ OpenAICall /\ pc = "done"
    /\ Len(Citations) >= 1
    /\ DOMAIN url_contents = {}

\* C10 (as claimed): when markers exist but attribution yields no span for
\* any of them, there is one Source per marker and every one of them carries
\* the full response text as content.
C10_AllSourcesCarryFullText ==
    MarkersWithoutSpans =>
      /\ Len(ReturnedNewsData.sources) = Len(Citations)
      /\ \A i \in 1..Len(Citations) :
            ReturnedNewsData.sources[i].content = message.content

\* C10 (amended): when markers exist but attribution yields no span for any
\* of them, there is one Source per marker, with the marker's URL and title;
\* the first Source carries the full response text, every later Source the
\* first 300 characters of the response text followed by "...".
C10_FirstSourceCarriesFullText ==
    MarkersWithoutSpans =>
      /\ Len(ReturnedNewsData.sources) = Len(Citations)
      /\ \A i \in 1..Len(Citations) :
            /\ ReturnedNewsData.sources[i].url = Citations[i].url
            /\ ReturnedNewsData.sources[i].title = Citations[i].title
            /\ ReturnedNewsData.sources[i].content =
                 IF i = 1 THEN message.content
                 ELSE SubSeq(message.content, 1, MinOf(FillerLen, Len(message.content)))
                        \o <<".", ".", ".">>

\* two markers without span in a text longer than the filler length
C10_Witness ==
    /\ MarkersWithoutSpans
    /\ Len(Citations) >= 2
    /\ Len(message.content) > FillerLen
    /\ ReturnedNewsData.sources[2].content # message.content

\* citations whose marker text occurs in the response text
FoundCitations ==
    { i \in 1..Len(Citations) : Find(message.content, Citations[i].text, 0) # -1 }

\* attribution gave a span for some but not all markers
PartialSpans ==
    /\ OpenAICall /\ pc = "done"
    /\ FoundCitations # {}
    /\ FoundCitations # 1..Len(Citations)

\* the found citations that name the URL of citation i
FoundWithUrlOf(i) == { j \in FoundCitations : Citations[j].url = Citations[i].url }

\* C11 (as claimed): when attribution yields spans for some but not all
\* markers, the Source of each marker that has a span carries exactly that
\* marker's span, and the Source of each marker without a span carries exactly
\* the first 300 characters of the full response text.
C11_PartialSpansExactFiller ==
    PartialSpans =>
      /\ Len(ReturnedNewsData.sources) = Len(Citations)
      /\ \A i \in 1..Len(Citations) :
            ReturnedNewsData.sources[i].content =
              IF i \in FoundCitations
              THEN SpanOfCitation(i).related_content
              ELSE SubSeq(message.content, 1, MinOf(FillerLen, Len(message.content)))

\* C11 (amended): when attribution yields spans for some but not all markers,
\* there is one Source per marker; the Source of a marker whose URL has a
\* recorded span carries that span, which is the span of the last annotation
\* with that URL whose marker text occurs in the text, and the Source of a
\* marker whose URL has no recorded span carries the first 300 characters of
\* the full response text followed by "...".
C11_PartialSpansByUrl ==
    PartialSpans =>
      /\ Len(ReturnedNewsData.sources) = Len(Citations)
      /\ \A i \in 1..Len(Citations) :
            ReturnedNewsData.sources[i].content =
              IF FoundWithUrlOf(i) # {}
              THEN LET last == CHOOSE j \in FoundWithUrlOf(i) :
                                  \A k \in FoundWithUrlOf(i) : k <= j
                   IN  SpanOfCitation(last).related_content
              ELSE SubSeq(message.content, 1, MinOf(FillerLen, Len(message.content)))
                     \o <<".", ".", ".">>

\* one marker with its own span, one marker of another URL without span, in a
\* text longer than the filler length
C11_Witness ==
    /\ PartialSpans
    /\ Len(Citations) = 2
    /\ Citations[1].url # Citations[2].url
    /\ Len(message.content) > FillerLen
    /\ \E i \in 1..2 :
          /\ i \notin FoundCitations
          /\ Len(ReturnedNewsData.sources[i].content) = FillerLen + 3

\* two markers of one URL of which only the later annotation's occurs
C11_WitnessSharedUrl ==
    /\ PartialSpans
    /\ Len(Citations) = 2
    /\ Citations[1].url = Citations[2].url
    /\ FoundCitations = {2}
    /\ ReturnedNewsData.sources[1].content = SpanOfCitation(2).related_content

\* C12: after constructing WebSearchService with any preferred-engine value,
\* the engine order is a duplicate-free permutation of the registered backends
\* {google, duckduckgo}: a recognized preferred identifier is at position 0
\* with the other backend kept after it, and an absent or unrecognized value
\* leaves the default order google, duckduckgo.
C12_EngineOrderIsPermutation ==
    WebCall =>
      /\ Len(engine_order) = 2
      /\ { engine_order[i] : i \in 1..Len(engine_order) } = {"google", "duckduckgo"}
      /\ \A i, j \in 1..Len(engine_order) : engine_order[i] = engine_order[j] => i = j
      /\ search_engine = "google" => engine_order = <<"google", "duckduckgo">>
      /\ search_engine = "DuckDuckGo" => engine_order = <<"duckduckgo", "google">>
      /\ search_engine \in {"", "bing"} => engine_order = <<"google", "duckduckgo">>

\* the preferred engine is the second of the default order, and the search
\* asked it first
C12_Witness ==
    /\ WebCall
    /\ search_engine = "DuckDuckGo"
    /\ engine_order[1] = "duckduckgo"
    /\ Len(calls) >= 1
    /\ calls[1].engine = "duckduckgo"

\* the hits of the finished call that have a URL and gave content
UsableHits ==
    SelectSeq(fetch_log, LAMBDA f : f.url # << >> /\ f.content # << >>)

\* C13: in Strategy B the orchestrator is called once, the fetcher is called
\* exactly once for each raw hit with a nonempty URL and never for a hit with
\* an empty URL, and when any hit is usable the returned Sources are exactly
\* the hits with nonempty URL and nonempty fetched content, in raw-hit order,
\* each carrying its hit's URL and the fetched content.
C13_FetchOncePerHitWithUrl ==
    (WebCall /\ pc = "done") =>
      /\ attempt_number = 1
      /\ Len(fetch_log) = Len(search_results)
      /\ \A i \in 1..Len(search_results) :
            /\ fetch_log[i].url = search_results[i].url
            /\ fetch_log[i].called <=> (search_results[i].url # << >>)
      /\ UsableHits # << >> =>
            /\ Len(ReturnedNewsData.sources) = Len(UsableHits)
            /\ \A k \in 1..Len(UsableHits) :
                  /\ ReturnedNewsData.sources[k].url = UsableHits[k].url
                  /\ ReturnedNewsData.sources[k].content = UsableHits[k].content

\* two usable hits of different URLs
C13_Witness ==
    /\ WebCall /\ pc = "done"
    /\ Len(UsableHits) = 2
    /\ UsableHits[1].url # UsableHits[2].url
    /\ Len(ReturnedNewsData.sources) = 2

\* a hit without URL, for which no fetch was made, before a usable hit
C13_WitnessEmptyUrl ==
    /\ WebCall /\ pc = "done"
    /\ Len(search_results) = 2
    /\ search_results[1].url = << >>
    /\ ~fetch_log[1].called
    /\ Len(UsableHits) = 1
    /\ ReturnedNewsData.sources[1].url = search_results[2].url

\* the last fetch is one whose page navigation (goto, which also ends with
\* the 30 s timeout) or text extraction (evaluate) raised
FailedPageFetch == last_fetch.stage \in {"goto", "evaluate"}

\* C14: when page navigation times out or navigation or text extraction
\* raises, _fetch_content_from_url returns the empty string, does not raise,
\* and the browser it launched has been closed by the time it returns.
C14_FailedFetchReturnsEmptyAndCloses ==
    (WebCall /\ FailedPageFetch) =>
      /\ ~last_fetch.raised
      /\ last_fetch.content = << >>
      /\ last_fetch.browser = "closed"
      /\ pc # "raised"

\* the navigation of the last fetch failed and the call went on to its return
C14_Witness ==
    /\ WebCall /\ pc = "done"
    /\ last_fetch.stage = "goto"
    /\ last_fetch.url # << >>
    /\ last_fetch.browser = "closed"
    /\ last_fetch.content = << >>

\* the text extraction of the last fetch failed
C14_WitnessExtraction ==
    /\ WebCall /\ pc = "done"
    /\ last_fetch.stage = "evaluate"
    /\ last_fetch.browser = "closed"
    /\ last_fetch.content = << >>

C16_SourcesRoundTrip ==
    (app_call.op = "news_get_by_id" /\ app_call.arg \in 1..Len(news_created)) =>
      /\ app_call.result # NoValue
      /\ LET stored == news_created[app_call.arg].sources
             loaded == app_call.result[1].sources
         IN  /\ Len(loaded) = Len(stored)
             /\ \A i \in 1..Len(stored) :
                   /\ loaded[i].url = stored[i].url
                   /\ loaded[i].title = stored[i].title
                   /\ loaded[i].content = stored[i].content
                   /\ loaded[i].published_at = stored[i].published_at

\* three sources were stored and read back: texts with quotes and the word
\* null, a timestamp with microseconds and a source without timestamp
C16_Witness ==
    /\ app_call.op = "news_get_by_id"
    /\ app_call.result # NoValue
    /\ Len(app_call.result[1].sources) = 3
    /\ app_call.result[1].sources[1].published_at = Some(Datetime(2, 5))
    /\ app_call.result[1].sources[1].content = JsonNull
    /\ app_call.result[1].sources[2].published_at = NoValue

\* C18: collect_news_for_topic called with a topic id that the topic
\* repository does not resolve raises ValueError before the search service is
\* invoked, and leaves step_status, the current topic, news and article ids
\* and the stored news records unchanged.
C18_MissingTopicRaisesValueError ==
    [][ \A topic_id \in 1..(MaxTopicRows + 1) :
          ( /\ CollectNewsForTopicOf(topic_id)
            /\ \A i \in 1..Len(topic_rows) : topic_rows[i].id # topic_id )
          => /\ app_call'.raised = "ValueError"
             /\ ~app_call'.search_invoked
             /\ UNCHANGED <<step_status, current_topic_id, current_news_id,
                            current_article_id, news_rows>> ]_vars

\* the call raised ValueError after an earlier collection had set the step
\* flags and the current ids
C18_Witness ==
    /\ app_call.op = "collect_news_for_topic"
    /\ app_call.raised = "ValueError"
    /\ \A i \in 1..Len(topic_rows) : topic_rows[i].id # app_call.arg
    /\ step_status.news_collected
    /\ current_news_id # NoValue
    /\ news_rows # << >>

\* the objects call c has used
UsedBy(c) == { call_uses[c][i].id : i \in 1..Len(call_uses[c]) }

\* C17 (as claimed): no resource is shared between two concurrent
\* search_topic calls on the same service instance: each call uses browser
\* sessions and a model client of its own, and has released every resource it
\* used by the time it returns.
C17_NoSharedResources ==
    /\ \A c1, c2 \in Callers : c1 # c2 => UsedBy(c1) \cap UsedBy(c2) = {}
    /\ \A c \in Callers :
          call_pc[c] = "done" =>
            \A i \in 1..Len(call_uses[c]) : call_uses[c][i].state = "closed"

\* the character of the response text at position p (0-based)
CharAt(p) == message.content[p + 1]

\* the position 200 characters before an occurrence at start_pos, or the
\* start of the text
WindowStart(start_pos) == MaxOf(0, start_pos - ContextLookback)

\* positions of the sentence boundaries ". " and of the line breaks that lie
\* between WindowStart(start_pos) and an occurrence at start_pos
BoundariesBefore(start_pos) ==
    { b \in WindowStart(start_pos)..(start_pos - 1) :
        \/ CharAt(b) = "\n"
        \/ /\ b + 2 <= start_pos
           /\ CharAt(b) = "." /\ CharAt(b + 1) = " " }

\* the largest and the smallest element of a set of positions
Largest(S) == CHOOSE b \in S : \A other \in S : other <= b
Smallest(S) == CHOOSE b \in S : \A other \in S : b <= other

\* citation i is the last citation of its URL whose marker text occurs, so
\* that the span recorded for the URL is the span of citation i
RecordedFor(i) ==
    LET found == FoundCitations
    IN  /\ i \in found
        /\ \A j \in found : Citations[j].url = Citations[i].url => j <= i

\* C19 (as claimed): for every marker found in the text, the span starts
\* immediately after the nearest sentence boundary (". ") or line break within
\* the 200 characters preceding the marker occurrence if such a boundary
\* exists, including when the marker is within the first 200 characters of the
\* text, and otherwise 200 characters before the marker or at the text start.
C19_SpanStartAfterNearestBoundary ==
    (OpenAICall /\ pc = "done") =>
      \A i \in 1..Len(Citations) :
          RecordedFor(i) =>
            LET span == SpanOfCitation(i)
                boundaries == BoundariesBefore(span.start_pos)
                start == IF boundaries # {}
                         THEN Largest(boundaries) + 1
                         ELSE WindowStart(span.start_pos)
            IN  url_contents[Citations[i].url] =
                  Strip(Slice(message.content, start, span.span_end))

\* C19 (amended): for every marker found in the text whose occurrence is
\* more than 200 characters into the text, the span starts one position after
\* the nearest line break or period of a sentence boundary (". ") within the 200
\* characters preceding the occurrence if there is one, and otherwise 200
\* characters before the occurrence; for a marker within the first 200
\* characters the span starts at the start of the text, whether or not a
\* boundary precedes the marker. Leading whitespace is stripped from the span.
C19_SpanStartRefinedBeyondLookback ==
    (OpenAICall /\ pc = "done") =>
      \A i \in 1..Len(Citations) :
          LET span == SpanOfCitation(i)
              boundaries == BoundariesBefore(span.start_pos)
              start == IF span.start_pos > ContextLookback /\ boundaries # {}
                       THEN Largest(boundaries) + 1
                       ELSE WindowStart(span.start_pos)
          IN  span.found =>
                /\ span.context_start = start
                /\ RecordedFor(i) =>
                     url_contents[Citations[i].url] =
                       Strip(Slice(message.content, start, span.span_end))

\* a marker more than 200 characters into the text with a sentence boundary in
\* the 200 characters before it: the span starts after the boundary
C19_Witness ==
    /\ OpenAICall /\ pc = "done"
    /\ \E i \in 1..Len(Citations) :
          LET span == SpanOfCitation(i)
          IN  /\ RecordedFor(i)
              /\ span.start_pos > ContextLookback
              /\ BoundariesBefore(span.start_pos) # {}
              /\ Len(url_contents[Citations[i].url])
                   < span.span_end - WindowStart(span.start_pos)

\* a marker within the first 200 characters, after a sentence boundary: the
\* span starts at the start of the text
C19_WitnessNearStart ==
    /\ OpenAICall /\ pc = "done"
    /\ \E i \in 1..Len(Citations) :
          LET span == SpanOfCitation(i)
          IN  /\ RecordedFor(i)
              /\ span.start_pos <= ContextLookback
              /\ \E b \in BoundariesBefore(span.start_pos) : CharAt(b) = "."
              /\ CharAt(0) = "x"
              /\ Head(url_contents[Citations[i].url]) = "x"

\* positions at or after context_end, the end of the occurrence of citation
\* i, where a citation with a different marker text occurs
DifferentMarkersAfter(i, context_end) ==
    LET content == message.content
        texts == { Citations[j].text : j \in 1..Len(Citations) } \ { Citations[i].text }
    IN  { p \in context_end..Len(content) : \E text \in texts : MatchAt(content, text, p) }

\* C20: for every found marker whose span is not subject to the short-span
\* extension (span length at least 100, or no text after the span end), the
\* span ends exactly at the smallest position, at or after the end of this
\* marker's occurrence, where a marker with a different literal text occurs,
\* or at end-of-text if no different marker occurs after it; such a span
\* contains no part of a following different marker.
C20_SpanEndsAtNextDifferentMarker ==
    (OpenAICall /\ pc = "done") =>
      \A i \in 1..Len(Citations) :
          LET span == SpanOfCitation(i)
              after == DifferentMarkersAfter(i, span.start_pos + Len(Citations[i].text))
              span_end == IF after = {} THEN Len(message.content) ELSE Smallest(after)
              related == Strip(Slice(message.content, span.context_start, span_end))
          IN  ( /\ span.found
                /\ Len(related) >= MinRelatedLen \/ span_end = Len(message.content) )
              => /\ span.span_end = span_end
                 /\ \A p \in after : span_end <= p
                 /\ RecordedFor(i) => url_contents[Citations[i].url] = related

\* a span of at least 100 characters that ends where a different marker
\* begins, before the end of the text
C20_Witness ==
    /\ OpenAICall /\ pc = "done"
    /\ \E i \in 1..Len(Citations) :
          LET span == SpanOfCitation(i)
              after == DifferentMarkersAfter(i, span.start_pos + Len(Citations[i].text))
          IN  /\ RecordedFor(i)
              /\ after # {}
              /\ Smallest(after) < Len(message.content)
              /\ Len(url_contents[Citations[i].url]) >= MinRelatedLen
              /\ span.span_end = Smallest(after)

\* positions at or after `from` where the sentence terminator ". " occurs
TerminatorsFrom(from) ==
    { p \in from..(Len(message.content) - 2) : CharAt(p) = "." /\ CharAt(p + 1) = " " }

\* C21: when the span computed up to the next different marker is shorter
\* than 100 characters and text remains after that end, the span end is moved
\* forward to the first sentence terminator ". " at or after that end, and the
\* span then ends with that period; when no such terminator exists the span is
\* left unchanged; a span of 100 characters or more, or one that ends at
\* end-of-text, is never extended.
C21_ShortSpanExtendedToTerminator ==
    (OpenAICall /\ pc = "done") =>
      \A i \in 1..Len(Citations) :
          LET span == SpanOfCitation(i)
              after == DifferentMarkersAfter(i, span.start_pos + Len(Citations[i].text))
              marker_end == IF after = {} THEN Len(message.content) ELSE Smallest(after)
              unextended == Strip(Slice(message.content, span.context_start, marker_end))
              terminators == TerminatorsFrom(marker_end)
              short == Len(unextended) < MinRelatedLen /\ marker_end < Len(message.content)
          IN  span.found =>
                IF short /\ terminators # {}
                THEN /\ span.span_end = Smallest(terminators) + 1
                     /\ span.related_content =
                          Strip(Slice(message.content, span.context_start,
                                      Smallest(terminators) + 1))
                     /\ span.related_content[Len(span.related_content)] = "."
                     /\ RecordedFor(i) =>
                          url_contents[Citations[i].url] = span.related_content
                ELSE /\ span.span_end = marker_end
                     /\ span.related_content = unextended
                     /\ RecordedFor(i) => url_contents[Citations[i].url] = unextended

\* a short span that ended where a different marker begins was extended over
\* that marker to the period of the first terminator after it
C21_Witness ==
    /\ OpenAICall /\ pc = "done"
    /\ \E i \in 1..Len(Citations) :
          LET span == SpanOfCitation(i)
              after == DifferentMarkersAfter(i, span.start_pos + Len(Citations[i].text))
          IN  /\ RecordedFor(i)
              /\ after # {}
              /\ TerminatorsFrom(Smallest(after)) # {}
              /\ span.span_end = Smallest(TerminatorsFrom(Smallest(after))) + 1
              /\ span.span_end > Smallest(after)
              /\ Len(url_contents[Citations[i].url]) > Smallest(after) - span.context_start

\* a short span with text after its end and no terminator in that text: the
\* span is left as it was
C21_WitnessNoTerminator ==
    /\ OpenAICall /\ pc = "done"
    /\ \E i \in 1..Len(Citations) :
          LET span == SpanOfCitation(i)
              after == DifferentMarkersAfter(i, span.start_pos + Len(Citations[i].text))
          IN  /\ RecordedFor(i)
              /\ after # {}
              /\ Smallest(after) < Len(message.content)
              /\ TerminatorsFrom(Smallest(after)) = {}
              /\ Len(url_contents[Citations[i].url]) < MinRelatedLen
              /\ span.span_end = Smallest(after)

\* the positions where the marker text of citation i occurs in the response
OccurrencesOf(i) ==
    { p \in 0..(Len(message.content) - Len(Citations[i].text)) :
        MatchAt(message.content, Citations[i].text, p) }

\* C22: markers with identical literal marker text all receive the same span,
\* computed from the first occurrence of that text in the full text, and a
\* later occurrence of a marker's own text never terminates that marker's span:
\* only markers with a different text bound it.
C22_CollisionsCollapseToFirstOccurrence ==
    (OpenAICall /\ pc = "done") =>
      \A i \in 1..Len(Citations) :
          LET span == SpanOfCitation(i)
              occurrences == OccurrencesOf(i)
              later == occurrences \ { Smallest(occurrences) }
          IN  span.found =>
                /\ span.start_pos = Smallest(occurrences)
                /\ Len(ReturnedNewsData.sources) = Len(Citations)
                /\ \A j \in 1..Len(Citations) :
                      Citations[j].text = Citations[i].text =>
                        /\ ReturnedNewsData.sources[j].content =
                             ReturnedNewsData.sources[i].content
                        /\ ReturnedNewsData.sources[j].content =
                             url_contents[Citations[i].url]
                /\ \A p \in later :
                      DifferentMarkersAfter(i, span.start_pos + Len(Citations[i].text))
                         \cap 0..p = {}
                      => span.span_end >= p + Len(Citations[i].text)

\* a citation annotated twice whose marker text occurs a second time before
\* the marker of a different citation: both Sources of the repeated citation
\* carry the span from the first occurrence up to the different marker
C22_Witness ==
    /\ OpenAICall /\ pc = "done"
    /\ \E i, j \in 1..Len(Citations) :
          LET span == SpanOfCitation(i)
              after == DifferentMarkersAfter(i, span.start_pos + Len(Citations[i].text))
          IN  /\ i # j
              /\ Citations[i].text = Citations[j].text
              /\ Cardinality(OccurrencesOf(i)) >= 2
              /\ after # {}
              /\ \E p \in OccurrencesOf(i) : p > span.start_pos /\ p < Smallest(after)
              /\ span.span_end >= Smallest(after)
              /\ ReturnedNewsData.sources[i].content = ReturnedNewsData.sources[j].content
              /\ Len(ReturnedNewsData.sources[i].content) >= 2 * Len(Citations[i].text)

\* the browsers, contexts and pages the fetches of all calls have created
FetchObjects ==
    UNION { { call_uses[c][i] : i \in 1..Len(call_uses[c]) } : c \in Callers }

C24_SpansContainTheirMarker ==
    (OpenAICall /\ pc = "done") =>
      /\ \A i \in 1..Len(Citations) :
            LET span == SpanOfCitation(i)
            IN  span.found =>
                  /\ span.related_content # << >>
                  /\ span.context_start <= span.start_pos
                  /\ span.span_end >= span.start_pos + Len(Citations[i].text)
                  /\ Find(span.related_content, Citations[i].text, 0) # -1
      /\ \A u \in DOMAIN url_contents :
            /\ url_contents[u] # << >>
            /\ \E i \in FoundCitations :
                  /\ Citations[i].url = u
                  /\ Find(url_contents[u], Citations[i].text, 0) # -1
      /\ (DOMAIN url_contents = {}) <=> (FoundCitations = {})
      /\ DOMAIN url_contents = { Citations[i].url : i \in FoundCitations }
      /\ (\E u \in DOMAIN url_contents : url_contents[u] # << >>) <=> (FoundCitations # {})

\* two markers occur, one of them between whitespace that strip removes: the
\* map has a span for each URL and each span holds more than its marker
C24_Witness ==
    /\ OpenAICall /\ pc = "done"
    /\ Cardinality(DOMAIN url_contents) = 2
    /\ \A i \in 1..Len(Citations) :
          /\ i \in FoundCitations
          /\ Find(url_contents[Citations[i].url], Citations[i].text, 0) # -1
          /\ Len(url_contents[Citations[i].url]) > Len(Citations[i].text)
    /\ \E i \in 1..Len(Citations) :
          SpanOfCitation(i).span_end - SpanOfCitation(i).context_start
            > Len(url_contents[Citations[i].url])

\* markers are cited and none occurs in the text: the map is empty
C24_WitnessEmptyMap ==
    /\ OpenAICall /\ pc = "done"
    /\ Len(Citations) >= 1
    /\ FoundCitations = {}
    /\ DOMAIN url_contents = {}

\* C25: in Strategy A, when the response has at least one url_citation
\* annotation, the result has exactly one Source per url_citation annotation,
\* in annotation order, with that annotation's URL and title: annotations
\* whose marker is not found in the text are not dropped, and repeated
\* annotations of one URL are not merged.
C25_OneSourcePerCitation ==
    (OpenAICall /\ pc = "done" /\ Len(Citations) >= 1) =>
      /\ Len(ReturnedNewsData.sources) = Len(Citations)
      /\ \A i \in 1..Len(Citations) :
            /\ ReturnedNewsData.sources[i].url = Citations[i].url
            /\ ReturnedNewsData.sources[i].title = Citations[i].title

\* an annotation without url_citation between two citations, the marker of
\* the first citation not in the text: one Source for each of the two citations
C25_Witness ==
    /\ OpenAICall /\ pc = "done"
    /\ Len(message.annotations) = 3
    /\ Len(Citations) = 2
    /\ 1 \notin FoundCitations
    /\ 2 \in FoundCitations
    /\ Len(ReturnedNewsData.sources) = 2
    /\ ReturnedNewsData.sources[1].url = Citations[1].url

\* one citation annotated twice: two Sources with the same URL
C25_WitnessRepeated ==
    /\ OpenAICall /\ pc = "done"
    /\ Len(Citations) = 2
    /\ Citations[1] = Citations[2]
    /\ FoundCitations = {1, 2}
    /\ Len(ReturnedNewsData.sources) = 2
    /\ ReturnedNewsData.sources[1].url = ReturnedNewsData.sources[2].url

\* C26: once an article has been published (its row has a published_at), no
\* operation of AppService gives its row another status than "published", and
\* post_article is not invoked for it again.
C26_PublishedIsFinal ==
    [][\A i \in 1..Len(article_rows) :
          article_rows[i].published_at # NoValue =>
              /\ article_rows'[i].status = "published"
              /\ [article_id |-> article_rows[i].id, published_before |-> TRUE]
                     \notin note_poster'.posted
      ]_vars

\* C27: collect_news_for_topic on an existing topic: with stored news it
\* returns the stored record without a search and without a new row; without
\* stored news it invokes search_topic, returns normally, and persists one row,
\* the record it returns.
C27_SearchOnlyWithoutStoredNews ==
    [][(/\ app_call'.op = "collect_news_for_topic"
        /\ topic_get_by_id(topic_rows, app_call'.arg) # NoValue) =>
          LET stored == news_get_by_topic_id(news_rows, app_call'.arg)
          IN  IF stored # NoValue
              THEN /\ app_call'.raised = "none"
                   /\ app_call'.result = stored
                   /\ ~app_call'.search_invoked
                   /\ news_rows' = news_rows
              ELSE /\ app_call'.raised = "none"
                   /\ app_call'.search_invoked
                   /\ Len(news_rows') = Len(news_rows) + 1
                   /\ app_call'.result # NoValue
                   /\ app_call'.result[1].id = Some(news_rows'[Len(news_rows')].id)
      ]_vars

\* the four implications between the step flags
StepFlagsChain ==
    /\ step_status.article_published => step_status.article_created
    /\ step_status.article_improved => step_status.article_created
    /\ step_status.article_created => step_status.news_collected
    /\ step_status.news_collected => step_status.topic_created

\* C28: in every reachable state the step flags form a chain (published =>
\* created, improved => created, created => news collected, news collected =>
\* topic created), and a step that inserts a topic, which only create_topic
\* does, leaves topic_created alone set.
C28_StepFlagsFormAChain ==
    /\ []StepFlagsChain
    /\ [][Len(topic_rows') > Len(topic_rows) =>
            step_status' = [topic_created |-> TRUE, news_collected |-> FALSE,
                            article_created |-> FALSE, article_improved |-> FALSE,
                            article_published |-> FALSE]]_vars

\* a call failed with an exception while all five flags are set
C28_Witness ==
    /\ app_call.op = "call"
    /\ app_call.raised # "none"
    /\ step_status.article_published
    /\ step_status.article_improved

\* create_topic has reset the flags after an article was the current one
C28_WitnessReset ==
    /\ current_article_id # NoValue
    /\ current_topic_id = Some(Len(topic_rows))
    /\ step_status.topic_created
    /\ ~step_status.news_collected

\* the steps of run_full_process in their order, and the key of the dict each
\* one fills
RunSteps ==
    <<"create_topic", "collect_news_for_topic", "create_article_for_topic",
      "improve_article", "post_article_to_note">>

RunFilled(result, k) ==
    CASE k = 1 -> result.topic # NoValue
      [] k = 2 -> result.news_data # NoValue
      [] k = 3 -> result.article # NoValue
      [] k = 4 -> result.improved_article # NoValue
      [] OTHER -> result.note_posted \in BOOLEAN

\* C29: run_full_process never raises; the steps it has entered are the first
\* ones of create topic, collect news, create article, improve article, post;
\* when a step raised it is the last one entered, the call returns, success is
\* false, an error message is the last message, and the results of the steps
\* before it are in the dict; success is true exactly when no step raised.
C29_RunFullProcessNeverRaises ==
    app_call.op = "run_full_process" =>
        LET result == app_call.result[1]
            entered == Len(result.steps)
            completed == IF result.raised = "none" THEN entered ELSE entered - 1
        IN  /\ app_call.raised = "none"
            /\ entered <= Len(RunSteps)
            /\ \A k \in 1..entered : result.steps[k] = RunSteps[k]
            /\ result.next \in {"returned"} \cup
                               (IF entered < Len(RunSteps) THEN {RunSteps[entered + 1]} ELSE {})
            /\ result.raised # "none" => result.next = "returned"
            /\ result.success <=> result.raised = "none"
            /\ Len(result.messages) = entered
            /\ result.raised # "none" <=> result.messages[entered] = "error"
            /\ \A k \in 1..4 : RunFilled(result, k) <=> k <= completed
            /\ result.note_posted => (entered = 5 /\ result.raised = "none")

\* run_full_process returned after collect_news_for_topic raised
C29_Witness ==
    /\ app_call.op = "run_full_process"
    /\ app_call.result[1].next = "returned"
    /\ app_call.result[1].raised # "none"
    /\ app_call.result[1].steps = <<"create_topic", "collect_news_for_topic">>
    /\ app_call.result[1].topic # NoValue

\* run_full_process returned after the post step raised
C29_WitnessPostRaised ==
    /\ app_call.op = "run_full_process"
    /\ app_call.result[1].next = "returned"
    /\ app_call.result[1].raised # "none"
    /\ Len(app_call.result[1].steps) = 5

\* run_full_process returned after all five steps, the article posted
C29_WitnessAllSteps ==
    /\ app_call.op = "run_full_process"
    /\ app_call.result[1].next = "returned"
    /\ app_call.result[1].success
    /\ app_call.result[1].note_posted

\* C30: when two concurrent collect_news_for_topic calls for one existing topic
\* have ended, at most one of them has created a news record and both have
\* returned the same record.
C30_ConcurrentCollectsShareOneRecord ==
    (/\ \A c \in Callers : collect_call[c].pc = "done"
     /\ collect_call[1].topic_id = collect_call[2].topic_id
     /\ \A c \in Callers : collect_call[c].raised # "ValueError") =>
        /\ Cardinality({ c \in Callers : collect_call[c].created }) <= 1
        /\ \A c \in Callers : collect_call[c].raised = "none"
        /\ collect_call[1].result # NoValue
        /\ collect_call[1].result = collect_call[2].result

=============================================================================
